---- MODULE Spec2Model ----
(***************************************************************************)
(* State-machine model of the DDoS detection system: the blocklist of      *)
(* core/prevention_engine.py with its firewall effector and sweeper, the   *)
(* attack handler of core/detection_engine.py that feeds it, the           *)
(* prevention part of UpdateConfig in main.py, and the flow table of       *)
(* core/packet_capture.py.                                                  *)
(*                                                                         *)
(* Time is the integer clock `now` (time.time()); addresses are AddrBits   *)
(* wide integers; confidences are tenths (7 = 0.7).  A Python dict is an   *)
(* insertion-ordered sequence of <<key, value>> pairs.                      *)
(***************************************************************************)
EXTENDS Integers, Sequences, FiniteSets, TLC

VARIABLES
    \* ---- PreventionEngine
    blocked_ips,            \* dict ip -> expiry time
    blocked_by_attack_type, \* dict attack type -> set of ips
    whitelist,              \* set of whitelist entries
    block_duration,         \* configured default duration
    auto_block,             \* configured automatic blocking
    auto_block_attack_types,\* restricted set of types (empty = all)
    running,                \* PreventionEngine.running (sweeper loop condition)
    rules,                  \* kernel chain DDOS_PROTECTION: ip -> number of DROP rules
    now,                    \* time.time()
    ret,                    \* return value of the last handler: "True", "False", "None"
    calls,                  \* effector calls of the last handler, in order: <<kind, ip, ok>>
    \* ---- observers: `focus` is fixed by each specification and selects which of
    \* them is recorded; no handler reads any of them
    focus,
    op,                     \* focus "op": the last handler and its arguments
    unblock_failed,         \* focus "window": ips whose Unblock effector call failed and
                            \* that no sweep has begun for since
    pre_block,              \* focus "law": the blocklist as it was before an Add, and
                            \* whether an Unblock of the same ip followed it
    zero_added,             \* focus "zero": ips whose entry an Add of duration 0 created
    flow_enqueues,          \* focus "lifetime": flow key -> number of times the flow of
                            \* that key was put on the queue since its last creation
    evicted_flows,          \* focus "evict": the flows the last packet pushed out of the
                            \* flow table
    taken_flows,            \* focus "batch": the flows the last iteration of the
                            \* detection loop took off the queue
    \* ---- PacketCapture
    flow_table,             \* dict flow key -> flow data
    flow_expiry,            \* dict flow key -> last seen time
    packet_queue,           \* queue.Queue of flow copies, oldest first
    capture_running,        \* PacketCapture.running
    \* ---- DDoSLogger
    attack_log,             \* rows of ddos_attacks.log, oldest first
    log_rewrite,            \* the rewrite of the attack log a thread is in the middle of
    \* ---- NotificationService
    notification_callback,  \* DetectionEngine.notification_callback: "None" or "notify"
    pending_notifications,  \* attacks waiting for the next mail
    last_notification_time, \* time of the last mail
    notification_running,   \* NotificationService.running
    last_mail,                \* the attacks of the last mail handed to the email sender
    \* ---- ClassificationSystem and DetectionEngine.analyze_flow
    scoring,                \* the flow being analysed with what each model answers
    verdict,                \* what analyze_flow returned for it
    flows,                  \* the batch the detection loop handed to _process_flows last
    stats,                  \* DetectionEngine.stats: the counters of flows
    thread_pool,            \* DetectionEngine.thread_pool: "None", "open" or "shutdown"
    futures,                \* the futures of the batch _process_flows is working on
    \* ---- DDoSDetectionSystem
    detection_running,      \* DetectionEngine.running
    shutdown,               \* position of stop_all
    \* ---- threads
    unblock_threads,        \* live threads running PreventionEngine._auto_unblock_loop
    capture_threads,        \* live threads running PacketCapture._capture_packets
    cleanup_threads,        \* live threads running PacketCapture._cleanup_old_flows
    \* ---- the component locks and the threads that take them
    lock,                   \* component -> the thread inside `with self.lock`, or "None"
    thread_pc,              \* thread -> where it is, and on which component
    call                    \* the control-surface call in progress

varsPrevention ==
    <<blocked_ips, blocked_by_attack_type, whitelist, block_duration, auto_block,
      auto_block_attack_types, running, rules, now, ret, calls>>

varsCapture == <<flow_table, flow_expiry, packet_queue, capture_running>>

varsObservers ==
    <<focus, op, unblock_failed, pre_block, zero_added, flow_enqueues, evicted_flows,
      taken_flows>>

varsLog == <<attack_log, log_rewrite>>

varsNotification ==
    <<notification_callback, pending_notifications, last_notification_time,
      notification_running, last_mail>>

varsPool == <<thread_pool, futures>>

varsScoring == <<scoring, verdict, flows, stats, varsPool>>

varsLock == <<lock, thread_pc, call>>

varsThreads == <<unblock_threads, capture_threads, cleanup_threads, varsLock>>

varsSystem == <<detection_running, shutdown, varsThreads>>

varsDetection == <<varsLog, varsNotification, varsScoring, varsSystem>>

(* what a handler of the blocklist leaves alone outside the blocklist, the flow
   table and the attack log *)
varsAside == <<log_rewrite, varsNotification, varsScoring, varsSystem>>

vars == <<varsPrevention, varsCapture, varsObservers, varsDetection>>

-----------------------------------------------------------------------------
(* Bounds of the model *)

MaxTime == 1
MaxDuration == 1
MaxRules == 2

MaxFlowPackets == 3
MaxQueue == 1
MaxPending == 2
MaxLogRows == 2

(* PacketCapture(buffer_size, max_packets_per_flow) and _cleanup_old_flows(timeout),
   scaled down: the flow table holds at most buffer_size flows, a flow is sent for scoring at
   max_packets_per_flow packets or after more than `timeout` ticks of silence *)
buffer_size == 1
max_packets_per_flow == 2
timeout == 0

(* Address width of the scaled-down address space (ipaddress.ip_address) *)
AddrBits == 2

(* '' : the empty address string rejected by `not ip` *)
NoIp == 0

(* duration=None *)
NoDuration == -1

Ips == {1, 2}
IpArgs == Ips \cup {NoIp}
Durations == 0..MaxDuration
DurationArgs == Durations \cup {NoDuration}

AttackTypes == {"SYN Flood"}
AutoBlockTypeSets == {{}}

(* detection_threshold = 0.7 and the confidences of handled attacks *)
detection_threshold == 7
Confidences == {7, 9}

(* whitelist entries: an exact address, or a network in CIDR form *)
WlIp(a) == [kind |-> "ip", addr |-> a, len |-> AddrBits]
WlNet(a, l) == [kind |-> "net", addr |-> a, len |-> l]

ConstructedWhitelist == {WlIp(1)}
Whitelists == {{WlIp(1)}, {WlNet(2, 1)}}

(* captured packets: two directions of one TCP connection, a UDP packet between two
   ports of one host, an ICMP echo request; `size` is len(packet) *)
TcpSegment(src_ip, src_port, dst_ip, dst_port, size, window) ==
    [proto |-> "TCP", src_ip |-> src_ip, src_port |-> src_port,
     dst_ip |-> dst_ip, dst_port |-> dst_port, size |-> size, window |-> window]
(* a TCP packet that advertises the window 0 *)
TcpPacket(src_ip, src_port, dst_ip, dst_port, size) ==
    TcpSegment(src_ip, src_port, dst_ip, dst_port, size, 0)
UdpPacket(src_ip, src_port, dst_ip, dst_port, size) ==
    [proto |-> "UDP", src_ip |-> src_ip, src_port |-> src_port,
     dst_ip |-> dst_ip, dst_port |-> dst_port, size |-> size]
IcmpPacket(src_ip, dst_ip, icmp_type, icmp_code, size) ==
    [proto |-> "ICMP", src_ip |-> src_ip, src_port |-> icmp_type,
     dst_ip |-> dst_ip, dst_port |-> icmp_code, size |-> size]
(* an ICMPv6 echo request over IPv6: its code is taken as 0 *)
Icmp6Packet(src_ip, dst_ip, icmp_type, size) ==
    [proto |-> "ICMPv6", src_ip |-> src_ip, src_port |-> icmp_type,
     dst_ip |-> dst_ip, dst_port |-> 0, size |-> size]

(* ip_layer.proto of an IPv4 packet, ip_layer.nh of an IPv6 packet *)
IpProtocol(pkt) ==
    CASE pkt.proto = "TCP" -> 6
      [] pkt.proto = "UDP" -> 17
      [] pkt.proto = "ICMP" -> 1
      [] pkt.proto = "ICMPv6" -> 58

Packets ==
    {TcpPacket(1, 1, 2, 1, 2), TcpPacket(2, 1, 1, 1, 1), UdpPacket(2, 2, 2, 1, 1),
     IcmpPacket(2, 1, 8, 0, 3)}

(* _process_tcp_packet, _process_udp_packet: the endpoint that compares smaller
   comes first in the bidirectional flow key; _process_icmp_packet: source,
   destination, type and code *)
IsForward(pkt) ==
    \/ pkt.proto \in {"ICMP", "ICMPv6"}
    \/ pkt.src_ip < pkt.dst_ip
    \/ (pkt.src_ip = pkt.dst_ip /\ pkt.src_port < pkt.dst_port)

FlowKey(pkt) ==
    IF IsForward(pkt)
    THEN <<pkt.src_ip, pkt.src_port, pkt.dst_ip, pkt.dst_port, pkt.proto>>
    ELSE <<pkt.dst_ip, pkt.dst_port, pkt.src_ip, pkt.src_port, pkt.proto>>

Direction(pkt) == IF IsForward(pkt) THEN "forward" ELSE "backward"

FlowKeys == {FlowKey(pkt) : pkt \in Packets}

-----------------------------------------------------------------------------
(* Python dict: insertion-ordered sequence of <<key, value>> *)

DictKeys(d) == {d[i][1] : i \in DOMAIN d}

DictHas(d, k) == k \in DictKeys(d)

DictGet(d, k) == d[CHOOSE i \in DOMAIN d : d[i][1] = k][2]

DictPut(d, k, v) ==
    IF DictHas(d, k)
    THEN [i \in DOMAIN d |-> IF d[i][1] = k THEN <<k, v>> ELSE d[i]]
    ELSE Append(d, <<k, v>>)

DictDelFirst(d, k) == IF d = <<>> THEN d ELSE Tail(d)

DictDel(d, k) == SelectSeq(d, LAMBDA e : e[1] # k)

-----------------------------------------------------------------------------
(* PreventionEngine: pure parts *)

RECURSIVE Pow2(_)
Pow2(n) == IF n <= 0 THEN 1 ELSE 2 * Pow2(n - 1)

(* ipaddress.ip_network(white_ip, strict=False); ip_obj in network *)
InNetwork(ip, e) ==
    ip \div Pow2(AddrBits - e.len) = e.addr \div Pow2(AddrBits - e.len)

(* _is_ip_whitelisted: direct match, else membership of a whitelisted network *)
IsIpWhitelisted(ip, wl) ==
    \/ WlIp(ip) \in wl
    \/ \E e \in wl : e.kind = "net" /\ InNetwork(ip, e)

(* block_duration = duration or self.block_duration *)
BlockDurationFor(duration, configured) ==
    IF duration = NoDuration \/ duration = 0 THEN configured ELSE duration

(* if new_expiry > current_expiry: self.blocked_ips[ip] = new_expiry *)
ExtendedExpiry(current_expiry, new_expiry) ==
    IF new_expiry > current_expiry THEN new_expiry ELSE current_expiry

(* blocked_by_attack_type[attack_type].add(ip), creating the set when absent *)
AddToAttackType(t, attack_type, ip) ==
    IF DictHas(t, attack_type)
    THEN DictPut(t, attack_type, DictGet(t, attack_type) \cup {ip})
    ELSE DictPut(t, attack_type, {ip})

(* for attack_ips in blocked_by_attack_type.values(): attack_ips.remove(ip) *)
RemoveFromAttackTypes(t, ip) == [i \in DOMAIN t |-> <<t[i][1], t[i][2] \ {ip}>>]

(* expired_ips = [ip for ip, expiry_time in blocked_ips.items() if expiry_time <= current_time] *)
ExpiredIpsStrict(b, current_time) ==
    SelectSeq([i \in DOMAIN b |-> b[i][1]], LAMBDA ip : DictGet(b, ip) < current_time)

ExpiredIps(b, current_time) ==
    SelectSeq([i \in DOMAIN b |-> b[i][1]], LAMBDA ip : DictGet(b, ip) <= current_time)

SeqToSet(s) == {s[i] : i \in DOMAIN s}

(* get_blocked_ips: the first attack type, in dict order, whose set holds ip *)
AttackTypeOf(t, ip) ==
    IF \E i \in DOMAIN t : ip \in t[i][2]
    THEN t[CHOOSE i \in DOMAIN t :
              ip \in t[i][2] /\ \A j \in DOMAIN t : ip \in t[j][2] => i <= j][1]
    ELSE "Unknown"

GetBlockedIps(b, t, current_time) ==
    [i \in DOMAIN b |->
        [ip |-> b[i][1],
         attack_type |-> AttackTypeOf(t, b[i][1]),
         expiry_time |-> b[i][2],
         remaining_time |-> IF b[i][2] - current_time > 0 THEN b[i][2] - current_time ELSE 0]]

(* DetectionEngine._should_block_attack; block_confidence_threshold falls back to
   detection_threshold + 0.1 *)
BlockThreshold == detection_threshold + 1

ShouldBlockAttackIgnoringAutoBlock(attack_type, confidence, ab, types) ==
    /\ (types # {} => attack_type \in types)
    /\ confidence >= BlockThreshold

ShouldBlockAttackAboveThreshold(attack_type, confidence, ab, types) ==
    /\ ab
    /\ types # {} => attack_type \in types
    /\ confidence > BlockThreshold

ShouldBlockAttack(attack_type, confidence, ab, types) ==
    /\ ab
    /\ (types # {} => attack_type \in types)
    /\ confidence >= BlockThreshold

-----------------------------------------------------------------------------
(* Observers *)

NoOp == [name |-> "init", ip |-> NoIp, dur |-> NoDuration, confidence |-> 0]

NoSnapshot == [stage |-> "none", ip |-> NoIp, ips |-> <<>>, types |-> <<>>]

Call(kind, ip, ok) == <<kind, ip, ok>>

AddHandlers == {"block_ip", "manual_block", "attack"}

FailedUnblocks(cs) == {cs[i][2] : i \in {j \in DOMAIN cs : cs[j][1] = "unblock" /\ ~cs[j][3]}}

(* what the handler `name`, called with (ip, dur, confidence), leaves in the
   observers; it reads the handler's own effect through the primed program variables *)
Observe(name, ip, dur, confidence) ==
    /\ focus' = focus
    /\ flow_enqueues' = flow_enqueues
    /\ evicted_flows' = evicted_flows
    /\ taken_flows' = taken_flows
    /\ op' = IF focus = "op" THEN [name |-> name, ip |-> ip, dur |-> dur, confidence |-> confidence]
                ELSE op
    /\ unblock_failed' =
          IF focus # "window" THEN unblock_failed
          ELSE IF name = "sweep" THEN FailedUnblocks(calls')
          ELSE (unblock_failed \cap DictKeys(blocked_ips')) \cup FailedUnblocks(calls')
    /\ pre_block' =
          IF focus # "law" THEN pre_block
          ELSE IF name \in AddHandlers
          THEN [stage |-> "add", ip |-> ip, ips |-> blocked_ips,
                types |-> blocked_by_attack_type]
          ELSE IF name = "unblock_ip" /\ pre_block.stage = "add" /\ pre_block.ip = ip
          THEN [pre_block EXCEPT !.stage = "add_unblock"]
          ELSE NoSnapshot
    /\ zero_added' =
          IF focus # "zero" THEN zero_added
          ELSE IF name \in AddHandlers /\ calls' = <<Call("block", ip, TRUE)>>
          THEN IF dur = 0 \/ (dur = NoDuration /\ block_duration = 0)
               THEN zero_added \cup {ip}
               ELSE zero_added \ {ip}
          ELSE IF name \in AddHandlers /\ ret' = "True"
          THEN zero_added \ {ip}
          ELSE zero_added \cap DictKeys(blocked_ips')

-----------------------------------------------------------------------------
(* DDoSLogger: the attack log.  A row is written with the columns timestamp,
   src_ip, dst_ip, src_port, dst_port, protocol, attack_type, confidence, blocked;
   the model keeps timestamp, src_ip, attack_type, confidence and blocked (the other
   columns are read from the same dict and by the same .get as src_ip).  No handler
   reads the log except to rewrite it, so the specifications whose properties do
   not read it leave the appends out (focus other than "log"). *)

(* the string 'unknown' that stands for a missing address *)
UnknownIp == -1

LogTracked == focus = "log"

(* DetectionEngine.stats is written by the handlers and read by none of them; its
   counters are followed under focus "stats" *)
StatsTracked == focus = "stats"

NoStats ==
    [attack_flows_detected |-> 0, benign_flows_analyzed |-> 0, false_positives |-> 0]

(* self.stats[counter] += 1 *)
Counted(st, counter) == IF StatsTracked THEN [st EXCEPT ![counter] = @ + 1] ELSE st

(* the threads are counted under focus "threads"; a thread is live from the
   Thread.start() that creates it until its function returns *)
ThreadsTracked == focus = "threads"

(* the four components that own a threading.RLock *)
Components == {"capture", "detection", "prevention", "notification"}

(* the threads a component's start creates and its stop joins, in the order of
   the joins *)
JoinedThreads(c) ==
    CASE c = "capture" -> <<"capture_thread", "cleanup_thread">>
      [] c = "detection" -> <<"detection_thread">>
      [] c = "prevention" -> <<"unblock_thread">>
      [] OTHER -> <<"notification_thread">>

WorkerThreads ==
    {"capture_thread", "cleanup_thread", "detection_thread", "unblock_thread",
     "notification_thread"}

(* the loops, the worker of the detector's pool, the stats thread of main.py and
   the thread that calls the control surface *)
Threads == WorkerThreads \cup {"pool_worker", "stats_thread", "control"}

NoThread == "None"

NoCall == [name |-> "None", on |-> "None", joining |-> 0]

At(pc, c) == [pc |-> pc, on |-> c]

InitLocks ==
    /\ lock = [c \in Components |-> NoThread]
    /\ thread_pc = [t \in Threads |->
                       IF t = "control" THEN At("idle", "None") ELSE At("dead", "None")]
    /\ call = NoCall

InitThreads ==
    /\ unblock_threads = 0
    /\ capture_threads = 0
    /\ cleanup_threads = 0
    /\ InitLocks

(* Thread(target=...).start() when `starts` *)
Spawned(threads, starts) == IF ThreadsTracked /\ starts THEN threads + 1 ELSE threads

(* log_rewrite: `rows` is what the rewriting thread read from the file, `todo` the
   effector calls whose status it is recording, the first of them being written *)
NoRewrite == [stage |-> "none", rows |-> <<>>, todo |-> <<>>]

LogRow(timestamp, src_ip, attack_type, confidence, blocked) ==
    [timestamp |-> timestamp, src_ip |-> src_ip, attack_type |-> attack_type,
     confidence |-> confidence, blocked |-> blocked]

(* dict.get(key, default) on a dict modelled as a record *)
DetailsGet(details, key, default) ==
    IF key \in DOMAIN details THEN details[key] ELSE default

(* the details classify_flow returns for a flow: the answers of the models and the
   final result; the model keeps the final result *)
ClassifyDetails(is_attack, confidence, attack_type) ==
    [final_result |-> [is_attack |-> is_attack, confidence |-> confidence,
                       attack_type |-> attack_type]]

(* DetectionEngine._log_attack followed by DDoSLogger.log_attack: the row appended
   for an attack *)
AttackRow(details, attack_type, confidence, current_time) ==
    LogRow(current_time, DetailsGet(details, "src_ip", UnknownIp), attack_type,
           confidence, FALSE)

(* _update_attack_log_blocked_status: the rows as they are written back *)
UpdateAttackLogBlockedStatus(rows, ip, blocked) ==
    [i \in DOMAIN rows |->
        IF rows[i].src_ip = ip THEN [rows[i] EXCEPT !.blocked = blocked] ELSE rows[i]]

(* update_ip_blocked_status as the blocklist calls it, once after each effector call
   that succeeded: True after a Block, False after an Unblock *)
RECURSIVE StatusRewrites(_, _)
StatusRewrites(rows, cs) ==
    IF cs = <<>> THEN rows
    ELSE StatusRewrites(IF cs[1][3]
                        THEN UpdateAttackLogBlockedStatus(rows, cs[1][2], cs[1][1] = "block")
                        ELSE rows,
                        Tail(cs))

-----------------------------------------------------------------------------
(* NotificationService *)

(* NotificationService(cooldown_period, critical_attack_types, min_confidence),
   scaled down: the cooldown in ticks, the confidence in tenths *)
cooldown_period == 1
min_confidence == 8
critical_attack_types == {}

(* last_notification_time = 0 against a clock that starts at the epoch: the first
   mail never waits *)
NeverNotified == 0 - cooldown_period

AttackInfo(src_ip, attack_type, confidence, current_time, blocked) ==
    [attack_type |-> attack_type, confidence |-> confidence, src_ip |-> src_ip,
     timestamp |-> current_time, blocked |-> blocked]

(* NotificationService.notify: the pending list it leaves *)
Notify(pending, attack_info) ==
    IF attack_info.confidence < min_confidence THEN pending
    ELSE IF critical_attack_types # {}
            /\ attack_info.attack_type \notin critical_attack_types THEN pending
    ELSE Append(pending, attack_info)

-----------------------------------------------------------------------------
(* ClassificationSystem and DetectionEngine.analyze_flow *)

(* no flow analysed yet *)
NoScoring == [flow |-> <<>>, models |-> <<>>, combination_method |-> "none"]

NoVerdict == [is_attack |-> FALSE, confidence |-> 0, attack_type |-> "none"]

(* A model's answer for a flow: whether scoring raises, else the label predicted
   and its probability in tenths.  Fused confidences are hundredths, the product of
   a weight in tenths and a confidence in tenths. *)
ModelAnswer(model_type, raises, label, confidence) ==
    [model_type |-> model_type, raises |-> raises, label |-> label,
     confidence |-> confidence]

(* DetectionEngine.false_positive_threshold, in tenths *)
false_positive_threshold == 8

(* ClassificationSystem.model_weights, in tenths *)
model_weights == <<6, 4>>

(* _create_attack_type_mapping, for the labels of the model *)
AttackTypeMapping(label) ==
    CASE label = "Benign" -> "Normal"
      [] label = "Syn" -> "SYN Flood"
      [] label = "UDP" -> "UDP Flood"
      [] OTHER -> label

Result(is_attack, confidence, attack_type) ==
    [is_attack |-> is_attack, confidence |-> confidence, attack_type |-> attack_type]

(* _classify_with_model: the value it returns, a pair (result, missing_features)
   from the try block and the 4-tuple (False, 0.0, "Error", None) from the except
   block *)
ClassifyWithModel(m) ==
    IF m.raises THEN <<FALSE, 0, "Error", "None">>
    ELSE LET attack_type == AttackTypeMapping(m.label)
             is_attack == attack_type # "Normal" /\ attack_type # "Benign"
             suricata_attack == m.confidence >= detection_threshold
         IN  IF m.model_type = "suricata"
             THEN <<Result(suricata_attack, m.confidence,
                           IF suricata_attack THEN "Generic DDoS" ELSE "Normal"), <<>>>>
             ELSE <<Result(is_attack, m.confidence, attack_type), <<>>>>

Abs(x) == IF x < 0 THEN 0 - x ELSE x

Min(a, b) == IF a < b THEN a ELSE b

(* np.argmax: the first index of the largest value *)
ArgMax(values) ==
    CHOOSE i \in DOMAIN values :
        /\ \A j \in DOMAIN values : values[j] <= values[i]
        /\ \A j \in DOMAIN values : j < i => values[j] < values[i]

RECURSIVE SumSeq(_)
SumSeq(values) == IF values = <<>> THEN 0 ELSE Head(values) + SumSeq(Tail(values))

(* model_weights cut or padded to the number of results *)
WeightsFor(n) ==
    [i \in 1..n |-> IF i <= Len(model_weights) THEN model_weights[i]
                    ELSE model_weights[Len(model_weights)]]

(* the attack type of the first CIC-DDoS model that voted attack, else `otherwise` *)
CicDdosType(results, model_types, otherwise) ==
    LET cic == {i \in DOMAIN results : model_types[i] = "cicddos" /\ results[i].is_attack}
    IN  IF cic = {} THEN otherwise
        ELSE results[CHOOSE i \in cic : \A j \in cic : i <= j].attack_type

(* _combine_results, method "weighted", with a sum of zero counted as an attack *)
CombineWeightedFromZero(results, model_types) ==
    LET weights == WeightsFor(Len(results))
        final_confidence_sum ==
            SumSeq([i \in DOMAIN results |->
                       weights[i] * (IF results[i].is_attack THEN results[i].confidence
                                     ELSE 0 - results[i].confidence)])
        is_attack == final_confidence_sum >= 0
        attack_idx == {i \in DOMAIN results : results[i].is_attack}
        best == CHOOSE i \in attack_idx :
                    \A j \in attack_idx : results[j].confidence <= results[i].confidence
    IN  Result(is_attack, Min(100, Abs(final_confidence_sum)),
               IF ~is_attack THEN "Normal"
               ELSE CicDdosType(results, model_types,
                                IF attack_idx # {} THEN results[best].attack_type
                                ELSE "Generic DDoS"))

(* _combine_results, method "weighted" *)
CombineWeighted(results, model_types) ==
    LET weights == WeightsFor(Len(results))
        weighted_confidences ==
            [i \in DOMAIN results |->
                weights[i] * (IF results[i].is_attack THEN results[i].confidence
                              ELSE 0 - results[i].confidence)]
        final_confidence_sum == SumSeq(weighted_confidences)
        is_attack == final_confidence_sum > 0
        attack_idx == {i \in DOMAIN results : results[i].is_attack}
        best == CHOOSE i \in attack_idx :
                    /\ \A j \in attack_idx : results[j].confidence <= results[i].confidence
                    /\ \A j \in attack_idx :
                          j < i => results[j].confidence < results[i].confidence
    IN  Result(is_attack, Min(100, Abs(final_confidence_sum)),
               IF ~is_attack THEN "Normal"
               ELSE CicDdosType(results, model_types,
                                IF attack_idx # {} THEN results[best].attack_type
                                ELSE "Generic DDoS"))

(* _combine_results, method "voting" *)
CombineVoting(results) ==
    LET weights == WeightsFor(Len(results))
        vote_sum == SumSeq([i \in DOMAIN results |->
                               IF results[i].is_attack THEN weights[i] ELSE 0])
        is_attack == vote_sum > 5
        top == ArgMax([i \in DOMAIN results |-> results[i].confidence])
    IN  Result(is_attack, 10 * results[top].confidence,
               IF is_attack THEN results[top].attack_type ELSE "Normal")

(* _combine_results, method "max_confidence" (the default) *)
CombineMaxConfidence(results, model_types) ==
    LET weights == WeightsFor(Len(results))
        top == ArgMax([i \in DOMAIN results |-> results[i].confidence * weights[i]])
    IN  Result(results[top].is_attack, 10 * results[top].confidence,
               IF results[top].is_attack /\ model_types[top] = "suricata"
               THEN CicDdosType(results, model_types, results[top].attack_type)
               ELSE results[top].attack_type)

(* _combine_results *)
CombineResults(results, model_types, combination_method) ==
    IF Len(results) = 1
    THEN Result(results[1].is_attack, 10 * results[1].confidence, results[1].attack_type)
    ELSE IF combination_method = "voting" THEN CombineVoting(results)
    ELSE IF combination_method = "weighted" THEN CombineWeighted(results, model_types)
    ELSE CombineMaxConfidence(results, model_types)

(* classify_flow: `result, missing_features = self._classify_with_model(...)`
   unpacks a pair, so the 4-tuple of the except block raises ValueError out of
   classify_flow; otherwise the results are combined *)
ClassifyFlow(sc) ==
    LET returned == [i \in DOMAIN sc.models |-> ClassifyWithModel(sc.models[i])]
        model_types == [i \in DOMAIN sc.models |-> sc.models[i].model_type]
    IN  IF \E i \in DOMAIN returned : Len(returned[i]) # 2
        THEN [raised |-> TRUE, result |-> Result(FALSE, 0, "Error")]
        ELSE [raised |-> FALSE,
              result |-> CombineResults([i \in DOMAIN returned |-> returned[i][1]],
                                        model_types, sc.combination_method)]

(* is_legitimate_service *)
streaming_ports == {1935, 443, 80, 8080, 8443}

IsLegitimateService(src_port, dst_port, protocol) ==
    /\ src_port \in streaming_ports \/ dst_port \in streaming_ports
    /\ protocol = 6 \/ protocol = 17

(* _check_potential_false_positive; the flow carries the number of its
   inter-arrival times and their coefficient of variation in tenths *)
CheckPotentialFalsePositive(flow) ==
    \/ IsLegitimateService(flow.src_port, flow.dst_port, flow.protocol)
    \/ flow.packets > 100 /\ flow.iat_len > 10 /\ flow.cv < 5

(* the band of confidences with its upper end included *)
BorderlineInclusive(r) ==
    /\ r.is_attack
    /\ 10 * detection_threshold <= r.confidence
    /\ r.confidence <= 10 * false_positive_threshold

(* analyze_flow: `is_attack and detection_threshold <= confidence <
   false_positive_threshold` *)
Borderline(r) ==
    /\ r.is_attack
    /\ 10 * detection_threshold <= r.confidence
    /\ r.confidence < 10 * false_positive_threshold

(* the false positive reduction of analyze_flow on the classification `r` *)
FalsePositiveGuard(flow, r) ==
    IF Borderline(r) /\ CheckPotentialFalsePositive(flow)
    THEN Result(FALSE, r.confidence, r.attack_type)
    ELSE r

(* analyze_flow: the verdict it returns, (False, 0.0, "Error") when classify_flow
   raised *)
AnalyzeFlowResult(sc) ==
    LET classified == ClassifyFlow(sc)
    IN  IF classified.raised THEN Result(FALSE, 0, "Error")
        ELSE FalsePositiveGuard(sc.flow, classified.result)

(* analyze_flow: whether it reaches `self.stats['false_positives'] += 1` *)
CountsFalsePositive(sc) ==
    LET classified == ClassifyFlow(sc)
    IN  /\ ~classified.raised
        /\ Borderline(classified.result)
        /\ CheckPotentialFalsePositive(sc.flow)

(* the logger, the notification service and the detection engine as main.py sets
   them up; `callback` is "None" when notifications are disabled in the config *)
InitDetectionFrom(callback, pools, batches) ==
    /\ attack_log = <<>>
    /\ log_rewrite = NoRewrite
    /\ notification_callback = callback
    /\ pending_notifications = <<>>
    /\ last_notification_time = NeverNotified
    /\ notification_running = FALSE
    /\ last_mail = <<>>
    /\ scoring = NoScoring
    /\ verdict = NoVerdict
    /\ flows \in batches
    /\ stats = NoStats
    /\ thread_pool \in pools
    /\ futures = <<>>
    /\ detection_running = FALSE
    /\ shutdown = "idle"
    /\ InitThreads

(* the detection engine of the default configuration: async_analysis, no batch taken *)
InitDetection(callback) == InitDetectionFrom(callback, {"open"}, {<<>>})

-----------------------------------------------------------------------------
(* PreventionEngine.__init__ followed by _initialize_iptables: the chain is created
   when absent and reused as it is when present *)

InitPreventionWith(type_sets) ==
    /\ blocked_ips = <<>>
    /\ blocked_by_attack_type = <<>>
    /\ whitelist = ConstructedWhitelist
    /\ block_duration = MaxDuration
    /\ auto_block = TRUE
    /\ auto_block_attack_types \in type_sets
    /\ running = FALSE
    /\ rules = [ip \in Ips |-> 0]
    /\ now = 0
    /\ ret = "None"
    /\ calls = <<>>

InitPrevention == InitPreventionWith(AutoBlockTypeSets)

InitObservers(f) ==
    /\ focus = f
    /\ op = NoOp
    /\ unblock_failed = {}
    /\ pre_block = NoSnapshot
    /\ zero_added = {}
    /\ flow_enqueues = [k \in FlowKeys |-> 0]
    /\ evicted_flows = <<>>
    /\ taken_flows = <<>>

(* _do_block_ip, `ok` being the outcome of the Block effector call (_block_ip) *)
DoBlockIp(ip, attack_type, duration, ok) ==
    IF DictHas(blocked_ips, ip)
    THEN /\ blocked_ips' =
              DictPut(blocked_ips, ip,
                      ExtendedExpiry(DictGet(blocked_ips, ip),
                                     now + BlockDurationFor(duration, block_duration)))
         /\ blocked_by_attack_type' = AddToAttackType(blocked_by_attack_type, attack_type, ip)
         /\ rules' = rules
         /\ calls' = <<>>
         /\ ret' = "True"
    ELSE IF ~ok
    THEN /\ calls' = <<Call("block", ip, FALSE)>>
         /\ ret' = "False"
         /\ UNCHANGED <<blocked_ips, blocked_by_attack_type, rules>>
    ELSE /\ calls' = <<Call("block", ip, TRUE)>>
         /\ rules' = [rules EXCEPT ![ip] = @ + 1]
         /\ blocked_ips' =
              DictPut(blocked_ips, ip, now + BlockDurationFor(duration, block_duration))
         /\ blocked_by_attack_type' = AddToAttackType(blocked_by_attack_type, attack_type, ip)
         /\ ret' = "True"

(* the whitelist gate of block_ip and manual_block, then _do_block_ip *)
GatedBlock(ip, attack_type, duration, ok) ==
    IF ip = NoIp \/ IsIpWhitelisted(ip, whitelist)
    THEN /\ ret' = "False"
         /\ calls' = <<>>
         /\ UNCHANGED <<blocked_ips, blocked_by_attack_type, rules>>
    ELSE DoBlockIp(ip, attack_type, duration, ok)

(* main.block_ip: PreventionEngine.block_ip with the attack type its attack_info
   carries *)
BlockIp(ip, ok) ==
    /\ GatedBlock(ip, "Manual", NoDuration, ok)
    /\ UNCHANGED <<whitelist, block_duration, auto_block, auto_block_attack_types,
                   running, now>>
    /\ Observe("block_ip", ip, NoDuration, 0)
    /\ UNCHANGED varsCapture
    /\ attack_log' = StatusRewrites(attack_log, calls')
    /\ UNCHANGED varsAside

(* PreventionEngine.manual_block *)
ManualBlock(ip, duration, ok) ==
    /\ GatedBlock(ip, "Manual", duration, ok)
    /\ UNCHANGED <<whitelist, block_duration, auto_block, auto_block_attack_types,
                   running, now>>
    /\ Observe("manual_block", ip, duration, 10)
    /\ UNCHANGED varsCapture
    /\ attack_log' = StatusRewrites(attack_log, calls')
    /\ UNCHANGED varsAside

(* DetectionEngine._handle_detected_attack: the attack is counted, then the blocking
   decision and the Add; ret is what block_ip returned to the handler, "None" when it
   was not called *)
HandleAttack(src_ip, attack_type, confidence, ok) ==
    /\ stats' = Counted(stats, "attack_flows_detected")
    /\ IF ShouldBlockAttack(attack_type, confidence, auto_block, auto_block_attack_types)
       THEN GatedBlock(src_ip, attack_type, NoDuration, ok)
       ELSE /\ ret' = "None"
            /\ calls' = <<>>
            /\ UNCHANGED <<blocked_ips, blocked_by_attack_type, rules>>
    /\ UNCHANGED <<whitelist, block_duration, auto_block, auto_block_attack_types,
                   running, now>>
    /\ Observe("attack", src_ip, NoDuration, confidence)
    /\ UNCHANGED varsCapture
    /\ LET details == ClassifyDetails(TRUE, confidence, attack_type)
           row == AttackRow(details, attack_type, confidence, now)
           attack_info == AttackInfo(src_ip, attack_type, confidence, now, ret' = "True")
       IN  /\ attack_log' =
                 StatusRewrites(IF LogTracked THEN Append(attack_log, row) ELSE attack_log,
                                calls')
           /\ pending_notifications' =
                 IF notification_callback = "notify"
                 THEN Notify(pending_notifications, attack_info)
                 ELSE pending_notifications
    /\ UNCHANGED <<log_rewrite, notification_callback, last_notification_time,
                   notification_running, last_mail, varsSystem>>

(* _handle_detected_attack on the verdict of a flow *)
HandleDetectedAttack(src_ip, attack_type, confidence, ok) ==
    /\ HandleAttack(src_ip, attack_type, confidence, ok)
    /\ UNCHANGED <<scoring, verdict, flows, varsPool>>

(* PreventionEngine.unblock_ip, `ok` being the outcome of the Unblock effector call *)
UnblockIp(ip, ok) ==
    /\ IF DictHas(blocked_ips, ip)
       THEN /\ calls' = <<Call("unblock", ip, ok)>>
            /\ IF ok
               THEN /\ rules' = [rules EXCEPT ![ip] = @ - 1]
                    /\ blocked_ips' = DictDel(blocked_ips, ip)
                    /\ blocked_by_attack_type' = RemoveFromAttackTypes(blocked_by_attack_type, ip)
                    /\ ret' = "True"
               ELSE /\ ret' = "False"
                    /\ UNCHANGED <<blocked_ips, blocked_by_attack_type, rules>>
       ELSE /\ calls' = <<>>
            /\ ret' = "False"
            /\ UNCHANGED <<blocked_ips, blocked_by_attack_type, rules>>
    /\ UNCHANGED <<whitelist, block_duration, auto_block, auto_block_attack_types,
                   running, now>>
    /\ Observe("unblock_ip", ip, NoDuration, 0)
    /\ UNCHANGED varsCapture
    /\ attack_log' = StatusRewrites(attack_log, calls')
    /\ UNCHANGED varsAside

(* the loop body of _cleanup_expired_blocks over the expired ips, in order; `okset`
   holds the ips whose Unblock effector call succeeds *)
RECURSIVE CleanupFromDropFailed(_, _, _)
CleanupFromDropFailed(expired_ips, okset, st) ==
    IF expired_ips = <<>>
    THEN st
    ELSE LET ip == Head(expired_ips)
         IN  CleanupFromDropFailed(Tail(expired_ips), okset,
                 [b |-> DictDel(st.b, ip),
                  t |-> RemoveFromAttackTypes(st.t, ip),
                  r |-> IF ip \in okset THEN [st.r EXCEPT ![ip] = @ - 1] ELSE st.r,
                  c |-> Append(st.c, Call("unblock", ip, ip \in okset))])

RECURSIVE CleanupFrom(_, _, _)
CleanupFrom(expired_ips, okset, st) ==
    IF expired_ips = <<>>
    THEN st
    ELSE LET ip == Head(expired_ips)
             ok == ip \in okset
         IN  CleanupFrom(Tail(expired_ips), okset,
                 [b |-> IF ok THEN DictDel(st.b, ip) ELSE st.b,
                  t |-> IF ok THEN RemoveFromAttackTypes(st.t, ip) ELSE st.t,
                  r |-> IF ok THEN [st.r EXCEPT ![ip] = @ - 1] ELSE st.r,
                  c |-> Append(st.c, Call("unblock", ip, ok))])

(* one iteration of _auto_unblock_loop: _cleanup_expired_blocks *)
CleanupExpiredBlocks(okset) ==
    /\ running
    /\ LET st == CleanupFrom(ExpiredIps(blocked_ips, now), okset,
                             [b |-> blocked_ips, t |-> blocked_by_attack_type,
                              r |-> rules, c |-> <<>>])
       IN  /\ blocked_ips' = st.b
           /\ blocked_by_attack_type' = st.t
           /\ rules' = st.r
           /\ calls' = st.c
    /\ ret' = "None"
    /\ UNCHANGED <<whitelist, block_duration, auto_block, auto_block_attack_types,
                   running, now>>
    /\ Observe("sweep", NoIp, NoDuration, 0)
    /\ UNCHANGED varsCapture
    /\ attack_log' = StatusRewrites(attack_log, calls')
    /\ UNCHANGED varsAside

(* The sweeper and the detector as two threads.  _cleanup_expired_blocks holds the
   lock of the blocklist from its first line to its last, but the attack log has no
   lock: _update_attack_log_blocked_status reads the whole file, closes it, and
   then opens it again for writing.  CleanupExpiredBlocksReading is the sweep up to
   the point where the file has been read for the first Unblock that succeeded,
   WriteAttackLog is the rest of the sweep. *)
SucceededCalls(cs) == SelectSeq(cs, LAMBDA c : c[3])

CleanupExpiredBlocksReading(okset) ==
    /\ running
    /\ log_rewrite.stage = "none"
    /\ LET st == CleanupFrom(ExpiredIps(blocked_ips, now), okset,
                             [b |-> blocked_ips, t |-> blocked_by_attack_type,
                              r |-> rules, c |-> <<>>])
       IN  /\ SucceededCalls(st.c) # <<>>
           /\ blocked_ips' = st.b
           /\ blocked_by_attack_type' = st.t
           /\ rules' = st.r
           /\ calls' = st.c
           /\ log_rewrite' = [stage |-> "read", rows |-> attack_log,
                              todo |-> SucceededCalls(st.c)]
    /\ ret' = "None"
    /\ UNCHANGED <<whitelist, block_duration, auto_block, auto_block_attack_types,
                   running, now>>
    /\ Observe("sweep", NoIp, NoDuration, 0)
    /\ UNCHANGED varsCapture
    /\ UNCHANGED <<attack_log, varsNotification, varsScoring, varsSystem>>

WriteAttackLog ==
    /\ log_rewrite.stage = "read"
    /\ attack_log' =
          StatusRewrites(UpdateAttackLogBlockedStatus(log_rewrite.rows,
                                                      Head(log_rewrite.todo)[2],
                                                      Head(log_rewrite.todo)[1] = "block"),
                         Tail(log_rewrite.todo))
    /\ log_rewrite' = NoRewrite
    /\ UNCHANGED <<varsNotification, varsScoring, varsSystem>>
    /\ UNCHANGED <<varsPrevention, varsCapture, varsObservers>>

(* the outcomes the Unblock effector can have: iptables -D fails when no rule matches *)
UnblockOutcomes(ip) == IF ip \in Ips /\ rules[ip] > 0 THEN BOOLEAN ELSE {FALSE}

SweepOutcomes ==
    SUBSET {ip \in SeqToSet(ExpiredIps(blocked_ips, now)) : rules[ip] > 0}

(* PreventionEngine.start *)
Start ==
    /\ running' = TRUE
    /\ ret' = "None"
    /\ calls' = <<>>
    /\ UNCHANGED <<blocked_ips, blocked_by_attack_type, rules, now, whitelist,
                   block_duration, auto_block, auto_block_attack_types>>
    /\ Observe("start", NoIp, NoDuration, 0)
    /\ UNCHANGED varsCapture
    /\ unblock_threads' = Spawned(unblock_threads, ~running)
    /\ UNCHANGED <<varsLog, varsNotification, varsScoring, detection_running, shutdown, varsLock,
                   capture_threads, cleanup_threads>>

(* PreventionEngine.stop *)
Stop ==
    /\ running' = FALSE
    /\ ret' = "None"
    /\ calls' = <<>>
    /\ UNCHANGED <<blocked_ips, blocked_by_attack_type, rules, now, whitelist,
                   block_duration, auto_block, auto_block_attack_types>>
    /\ Observe("stop", NoIp, NoDuration, 0)
    /\ UNCHANGED varsCapture
    /\ UNCHANGED varsDetection

(* update_config(section='prevention'): _update_prevention_config with the config
   dict `cfg`, then the restart of the engine it stopped for 'auto_block' *)
HasKey(cfg, k) == k \in DOMAIN cfg

UpdatePreventionConfig(cfg) ==
    /\ whitelist' = IF HasKey(cfg, "whitelist") THEN cfg.whitelist ELSE whitelist
    /\ block_duration' =
          IF HasKey(cfg, "block_duration") THEN cfg.block_duration ELSE block_duration
    /\ auto_block' = IF HasKey(cfg, "auto_block") THEN cfg.auto_block ELSE auto_block
    /\ running' = running
    /\ ret' = "True"
    /\ calls' = <<>>
    /\ UNCHANGED <<blocked_ips, blocked_by_attack_type, rules, now,
                   auto_block_attack_types>>
    /\ Observe("update_config", NoIp, NoDuration, 0)
    /\ UNCHANGED varsCapture
    /\ unblock_threads' = Spawned(unblock_threads, HasKey(cfg, "auto_block") /\ running)
    /\ UNCHANGED <<varsLog, varsNotification, varsScoring, detection_running, shutdown, varsLock,
                   capture_threads, cleanup_threads>>

WhitelistConfigs == {[whitelist |-> wl] : wl \in Whitelists}
DurationConfigs == {[block_duration |-> d] : d \in Durations}
AutoBlockConfigs == {[auto_block |-> b] : b \in BOOLEAN}

(* the clock advances *)
Tick ==
    /\ now < MaxTime
    /\ now' = now + 1
    /\ UNCHANGED <<blocked_ips, blocked_by_attack_type, whitelist, block_duration,
                   auto_block, auto_block_attack_types, running, rules, ret, calls>>
    /\ UNCHANGED varsCapture
    /\ UNCHANGED varsDetection
    /\ UNCHANGED varsObservers

(* a later run of the program: PreventionEngine.__init__ against the chain the
   stopped run left behind (stop removes no rule, _initialize_iptables reuses an
   existing chain without flushing it) *)
Construct ==
    /\ ~running
    /\ \A ip \in Ips : rules[ip] < MaxRules
    /\ blocked_ips' = <<>>
    /\ blocked_by_attack_type' = <<>>
    /\ whitelist' = ConstructedWhitelist
    /\ block_duration' = MaxDuration
    /\ auto_block' = TRUE
    /\ auto_block_attack_types' \in AutoBlockTypeSets
    /\ running' = FALSE
    /\ ret' = "None"
    /\ calls' = <<>>
    /\ UNCHANGED <<rules, now>>
    /\ Observe("init", NoIp, NoDuration, 0)
    /\ flow_table' = <<>>
    /\ flow_expiry' = <<>>
    /\ packet_queue' = <<>>
    /\ capture_running' = FALSE
    /\ attack_log' = attack_log
    /\ log_rewrite' = NoRewrite
    /\ notification_callback' = notification_callback
    /\ pending_notifications' = <<>>
    /\ last_notification_time' = NeverNotified
    /\ notification_running' = FALSE
    /\ last_mail' = <<>>
    /\ scoring' = NoScoring
    /\ verdict' = NoVerdict
    /\ flows' = <<>>
    /\ stats' = NoStats
    /\ thread_pool' = "open"
    /\ futures' = <<>>
    /\ detection_running' = FALSE
    /\ shutdown' = "idle"
    /\ unblock_threads' = 0
    /\ capture_threads' = 0
    /\ cleanup_threads' = 0
    /\ UNCHANGED varsLock

(* NotificationService.start *)
StartNotification ==
    /\ ~notification_running
    /\ notification_running' = TRUE
    /\ UNCHANGED <<notification_callback, pending_notifications, last_notification_time,
                   last_mail>>
    /\ UNCHANGED <<varsLog, varsScoring, varsSystem>>
    /\ UNCHANGED <<varsPrevention, varsCapture, varsObservers>>

(* NotificationService.stop *)
StopNotification ==
    /\ notification_running
    /\ notification_running' = FALSE
    /\ UNCHANGED <<notification_callback, pending_notifications, last_notification_time,
                   last_mail>>
    /\ UNCHANGED <<varsLog, varsScoring, varsSystem>>
    /\ UNCHANGED <<varsPrevention, varsCapture, varsObservers>>

(* one iteration of _notification_loop: every pending attack is handed to the email
   sender in one mail once the cooldown since the last mail has passed; `ok` is what
   send_email returns, which _send_notification does not look at, so the pending
   list and the time of the last mail do not depend on it.  last_mail is the last
   mail that went out. *)
NotificationLoopSending(ok) ==
    /\ notification_running
    /\ IF pending_notifications # <<>>
          /\ now - last_notification_time >= cooldown_period
       THEN /\ last_mail' = IF ok THEN pending_notifications ELSE last_mail
            /\ last_notification_time' = now
            /\ pending_notifications' = <<>>
       ELSE UNCHANGED <<last_mail, last_notification_time, pending_notifications>>
    /\ UNCHANGED <<notification_callback, notification_running>>
    /\ UNCHANGED <<varsLog, varsScoring, varsSystem>>
    /\ UNCHANGED <<varsPrevention, varsCapture, varsObservers>>

(* the iteration when the email sender delivers the mail *)
NotificationLoop == NotificationLoopSending(TRUE)

(* DetectionEngine.analyze_flow on the flow taken for scoring *)
AnalyzeFlow ==
    /\ scoring # NoScoring
    /\ verdict' = AnalyzeFlowResult(scoring)
    /\ stats' = IF CountsFalsePositive(scoring) THEN Counted(stats, "false_positives")
                ELSE stats
    /\ UNCHANGED <<scoring, flows, varsPool>>
    /\ UNCHANGED <<varsLog, varsNotification, varsSystem>>
    /\ UNCHANGED <<varsPrevention, varsCapture, varsObservers>>

(* the flows and the answers of the models that are scored *)
ScoredFlow(src_port, dst_port, protocol, packets, syn, ack, iat_len, cv) ==
    [src_port |-> src_port, dst_port |-> dst_port, protocol |-> protocol,
     packets |-> packets, syn |-> syn, ack |-> ack, iat_len |-> iat_len, cv |-> cv]

PlainFlow == ScoredFlow(40000, 5000, 6, 10, 5, 5, 9, 9)

ModelTypes == {"cicddos", "suricata"}
Labels == {"Benign", "Syn", "UDP"}
ScoreConfidences == {5, 7, 9}
CombinationMethods == {"max_confidence", "voting", "weighted"}

Answers ==
    {ModelAnswer(ty, FALSE, l, c) : ty \in ModelTypes, l \in Labels, c \in ScoreConfidences}

RaisingAnswers == {ModelAnswer(ty, TRUE, "Benign", 0) : ty \in ModelTypes}

Scoring(flow, models, combination_method) ==
    [flow |-> flow, models |-> models, combination_method |-> combination_method]

-----------------------------------------------------------------------------
(* PacketCapture: pure parts *)

(* the flow data _update_flow creates for a new key *)
NewFlow(flow_key, protocol, oid, current_time) ==
    [flow_key |-> flow_key, protocol |-> protocol,
     start_time |-> current_time, last_time |-> current_time,
     packets |-> 0, bytes |-> 0, packet_sizes |-> <<>>, oid |-> oid,
     fwd_packets |-> 0, bwd_packets |-> 0,
     fwd_bytes |-> 0, bwd_bytes |-> 0,
     init_win_bytes_forward |-> 0, init_win_bytes_backward |-> 0,
     analyzed |-> FALSE]

(* the window of the packet that creates the flow, "if TCP in packet" *)
RecordWindow(flow, pkt) ==
    IF pkt.proto # "TCP" THEN flow
    ELSE IF Direction(pkt) = "forward"
    THEN [flow EXCEPT !.init_win_bytes_forward = pkt.window]
    ELSE [flow EXCEPT !.init_win_bytes_backward = pkt.window]

(* The list flow['packet_sizes'] is an object that the flow and every copy made of
   it by flow.copy() refer to; `oid` names the object.  Lists and their objects are
   followed under focus "copy": the object of a new flow gets the smallest name no
   flow of the table or of the queue holds. *)
CopyTracked == focus = "copy"

FreshOid(table, q) ==
    IF ~CopyTracked THEN 0
    ELSE LET used == {table[i][2].oid : i \in DOMAIN table} \cup {q[i].oid : i \in DOMAIN q}
         IN  CHOOSE n \in 1..(Cardinality(used) + 1) :
                /\ n \notin used
                /\ \A m \in 1..(n - 1) : m \in used

(* flow['packet_sizes'].append(packet_size) *)
AppendPacketSize(flow, packet_size) ==
    IF CopyTracked THEN [flow EXCEPT !.packet_sizes = Append(@, packet_size)] ELSE flow

(* the queued copies as they read after the append: a copy whose packet_sizes is
   the object of `flow` shows the appended size too *)
SharedWith(q, flow) ==
    [i \in DOMAIN q |->
        IF CopyTracked /\ q[i].oid = flow.oid
        THEN [q[i] EXCEPT !.packet_sizes = flow.packet_sizes]
        ELSE q[i]]

(* _add_cicddos_features: flow['Protocol'] and flow['Init Fwd Win Bytes'] *)
AddCicddosFeatures(flow) ==
    [Protocol |-> CASE flow.protocol = 6 -> 6
                    [] flow.protocol = 17 -> 17
                    [] flow.protocol = 1 \/ flow.protocol = 58 -> 1
                    [] OTHER -> 0,
     InitFwdWinBytes |-> flow.init_win_bytes_forward] @@ flow

(* the basic and the directional counters of _update_flow *)
CountPacketForwardOnly(flow, direction, packet_size, current_time) ==
    [flow EXCEPT !.last_time = current_time,
                 !.packets = @ + 1,
                 !.bytes = @ + packet_size,
                 !.fwd_packets = IF direction = "forward" THEN @ + 1 ELSE @,
                 !.fwd_bytes = IF direction = "forward" THEN @ + packet_size ELSE @]

CountPacket(flow, direction, packet_size, current_time) ==
    [flow EXCEPT !.last_time = current_time,
                 !.packets = @ + 1,
                 !.bytes = @ + packet_size,
                 !.fwd_packets = IF direction = "forward" THEN @ + 1 ELSE @,
                 !.fwd_bytes = IF direction = "forward" THEN @ + packet_size ELSE @,
                 !.bwd_packets = IF direction = "forward" THEN @ ELSE @ + 1,
                 !.bwd_bytes = IF direction = "forward" THEN @ ELSE @ + packet_size]

(* the size trigger: enough packets, and not sent for analysis yet *)
SizeTrigger(flow) == flow.packets >= max_packets_per_flow /\ ~flow.analyzed

(* flow['analyzed'] = True *)
MarkAnalyzedNot(flow) == flow

MarkAnalyzed(flow) == [flow EXCEPT !.analyzed = TRUE]

(* _remove_oldest_flow picking the last key of the largest last seen time *)
NewestKey(expiry) ==
    expiry[CHOOSE i \in DOMAIN expiry :
              \A j \in DOMAIN expiry :
                  expiry[i][2] > expiry[j][2] \/ (expiry[i][2] = expiry[j][2] /\ i >= j)][1]

(* _remove_oldest_flow: the first key, in dict order, of the smallest last seen time *)
OldestKey(expiry) ==
    expiry[CHOOSE i \in DOMAIN expiry :
              \A j \in DOMAIN expiry :
                  expiry[i][2] < expiry[j][2] \/ (expiry[i][2] = expiry[j][2] /\ i <= j)][1]

(* _remove_oldest_flow sending the flow it removes for analysis when it was not
   analysed *)
RemoveOldestFlowSending(st) ==
    IF st.fe = <<>> THEN st
    ELSE LET oldest_key == OldestKey(st.fe)
         IN  [ft |-> DictDel(st.ft, oldest_key),
              fe |-> DictDel(st.fe, oldest_key),
              q |-> IF DictHas(st.ft, oldest_key) /\ ~DictGet(st.ft, oldest_key).analyzed
                    THEN Append(st.q, DictGet(st.ft, oldest_key))
                    ELSE st.q]

(* _remove_oldest_flow leaving the entry of the expiry index behind *)
RemoveOldestFlowKeepingExpiry(st) ==
    IF st.fe = <<>> THEN st
    ELSE [ft |-> DictDel(st.ft, OldestKey(st.fe)), fe |-> st.fe, q |-> st.q]

(* _remove_oldest_flow on the flow table, the expiry index and the queue *)
RemoveOldestFlow(st) ==
    IF st.fe = <<>> THEN st
    ELSE LET oldest_key == OldestKey(st.fe)
         IN  [ft |-> DictDel(st.ft, oldest_key),
              fe |-> DictDel(st.fe, oldest_key),
              q |-> st.q]

(* _cleanup_old_flows: the keys whose flow has been silent for more than `timeout` *)
ExpiredKeys(expiry, current_time) ==
    SelectSeq([i \in DOMAIN expiry |-> expiry[i][1]],
              LAMBDA key : current_time - DictGet(expiry, key) > timeout)

(* the loop of _cleanup_old_flows sending the flows that were analysed already *)
RECURSIVE CleanupFlowsFromAnalyzed(_, _)
CleanupFlowsFromAnalyzed(expired_keys, st) ==
    IF expired_keys = <<>>
    THEN st
    ELSE LET key == Head(expired_keys)
             send == DictHas(st.ft, key) /\ DictGet(st.ft, key).analyzed
         IN  CleanupFlowsFromAnalyzed(Tail(expired_keys),
                 [ft |-> DictDel(st.ft, key),
                  fe |-> DictDel(st.fe, key),
                  q |-> IF send THEN Append(st.q, DictGet(st.ft, key)) ELSE st.q,
                  sent |-> IF send THEN Append(st.sent, key) ELSE st.sent])

(* the loop of _cleanup_old_flows over the expired keys, in order *)
RECURSIVE CleanupFlowsFrom(_, _)
CleanupFlowsFrom(expired_keys, st) ==
    IF expired_keys = <<>>
    THEN st
    ELSE LET key == Head(expired_keys)
             send == DictHas(st.ft, key) /\ ~DictGet(st.ft, key).analyzed
         IN  CleanupFlowsFrom(Tail(expired_keys),
                 [ft |-> DictDel(st.ft, key),
                  fe |-> DictDel(st.fe, key),
                  q |-> IF send THEN Append(st.q, DictGet(st.ft, key)) ELSE st.q,
                  sent |-> IF send THEN Append(st.sent, key) ELSE st.sent])

(* flow_enqueues after a handler that created the flows of `created` and then put the
   flows of the keys in `sent` on the queue *)
CountEnqueues(created, sent) ==
    IF focus # "lifetime" THEN flow_enqueues
    ELSE [k \in FlowKeys |->
             LET base == IF k \in created THEN 0 ELSE flow_enqueues[k]
                 more == Cardinality({i \in DOMAIN sent : sent[i] = k})
             IN  IF base + more > 2 THEN 2 ELSE base + more]

-----------------------------------------------------------------------------
(* PacketCapture.__init__, with the queue main.py creates for it *)

InitCapture ==
    /\ flow_table = <<>>
    /\ flow_expiry = <<>>
    /\ packet_queue = <<>>
    /\ capture_running = FALSE

(* start_capture *)
StartCapture ==
    /\ capture_running' = TRUE
    /\ UNCHANGED <<flow_table, flow_expiry, packet_queue>>
    /\ UNCHANGED varsPrevention
    /\ capture_threads' = Spawned(capture_threads, ~capture_running)
    /\ cleanup_threads' = Spawned(cleanup_threads, ~capture_running)
    /\ UNCHANGED <<varsLog, varsNotification, varsScoring, detection_running, shutdown, varsLock,
                   unblock_threads>>
    /\ UNCHANGED varsObservers

(* stop_capture *)
StopCapture ==
    /\ capture_running' = FALSE
    /\ UNCHANGED <<flow_table, flow_expiry, packet_queue>>
    /\ UNCHANGED varsPrevention
    /\ UNCHANGED varsDetection
    /\ UNCHANGED varsObservers

(* _process_packet of a packet the sniffer delivers: the flow key and direction, then
   _update_flow with its size trigger and its limit on the flow table *)
ProcessPacket(pkt) ==
    /\ capture_running
    /\ DictHas(flow_table, FlowKey(pkt)) =>
          DictGet(flow_table, FlowKey(pkt)).packets < MaxFlowPackets
    /\ LET flow_key == FlowKey(pkt)
           created == ~DictHas(flow_table, flow_key)
           flow0 == IF created
                    THEN RecordWindow(NewFlow(flow_key, IpProtocol(pkt),
                                              FreshOid(flow_table, packet_queue), now),
                                      pkt)
                    ELSE DictGet(flow_table, flow_key)
           flow1 == AddCicddosFeatures(
                       AppendPacketSize(CountPacket(flow0, Direction(pkt), pkt.size, now),
                                        pkt.size))
           send == SizeTrigger(flow1)
           flow2 == IF send THEN MarkAnalyzed(flow1) ELSE flow1
           table == DictPut(flow_table, flow_key, flow2)
           expiry == DictPut(flow_expiry, flow_key, now)
           full == Len(table) > buffer_size
           sent == [ft |-> table, fe |-> expiry,
                    q |-> IF send THEN Append(SharedWith(packet_queue, flow1), flow1)
                          ELSE SharedWith(packet_queue, flow1)]
           limited == IF full THEN RemoveOldestFlow(sent) ELSE sent
       IN  /\ flow_table' = limited.ft
           /\ flow_expiry' = limited.fe
           /\ packet_queue' = limited.q
           /\ evicted_flows' =
                 IF focus # "evict" THEN evicted_flows
                 ELSE SelectSeq([i \in DOMAIN table |-> table[i][2]],
                                LAMBDA flow : ~DictHas(limited.ft, flow.flow_key))
           /\ flow_enqueues' =
                 CountEnqueues(IF created THEN {flow_key} ELSE {},
                               IF send THEN <<flow_key>> ELSE <<>>)
    /\ UNCHANGED capture_running
    /\ UNCHANGED varsPrevention
    /\ UNCHANGED varsDetection
    /\ UNCHANGED <<focus, op, unblock_failed, pre_block, zero_added, taken_flows>>

(* one iteration of the loop of _cleanup_old_flows *)
CleanupOldFlows ==
    /\ capture_running
    /\ LET st == CleanupFlowsFrom(ExpiredKeys(flow_expiry, now),
                                  [ft |-> flow_table, fe |-> flow_expiry,
                                   q |-> packet_queue, sent |-> <<>>])
       IN  /\ flow_table' = st.ft
           /\ flow_expiry' = st.fe
           /\ packet_queue' = st.q
           /\ flow_enqueues' = CountEnqueues({}, st.sent)
    /\ UNCHANGED capture_running
    /\ UNCHANGED varsPrevention
    /\ UNCHANGED varsDetection
    /\ UNCHANGED <<focus, op, unblock_failed, pre_block, zero_added, evicted_flows,
                   taken_flows>>

(* DetectionEngine.batch_size and min_packets_for_analysis, scaled down *)
batch_size == 2
min_packets_for_analysis == 2

(* the batch of _detection_loop without its set of flow keys *)
RECURSIVE BatchOfAny(_, _)
BatchOfAny(taken, batch) ==
    IF taken = <<>> THEN batch
    ELSE BatchOfAny(Tail(taken),
                    IF Head(taken).packets < min_packets_for_analysis
                    THEN batch
                    ELSE Append(batch, Head(taken)))

(* the batch of one iteration of _detection_loop taking the flows of `taken` in
   order: flows with too few packets are skipped, and so is a flow whose key is in
   the batch already *)
RECURSIVE BatchOf(_, _)
BatchOf(taken, batch) ==
    IF taken = <<>> THEN batch
    ELSE LET flow == Head(taken)
             flow_keys == {batch[i].flow_key : i \in DOMAIN batch}
         IN  BatchOf(Tail(taken),
                     IF flow.packets < min_packets_for_analysis THEN batch
                     ELSE IF flow.flow_key \notin flow_keys THEN Append(batch, flow)
                     ELSE batch)

(* one iteration of _detection_loop up to its call of _process_flows: get_nowait
   takes flows off the queue until batch_size are taken or the queue is empty.
   What _process_flows does with each flow of the batch are the actions AnalyzeFlow
   and HandleDetectedAttack *)
DetectionLoop ==
    /\ detection_running
    /\ futures = <<>>
    /\ LET n == Min(batch_size, Len(packet_queue))
       IN  /\ flows' = BatchOf(SubSeq(packet_queue, 1, n), <<>>)
           /\ packet_queue' = SubSeq(packet_queue, n + 1, Len(packet_queue))
           /\ taken_flows' = IF focus = "batch" THEN SubSeq(packet_queue, 1, n)
                              ELSE taken_flows
    /\ UNCHANGED <<flow_table, flow_expiry, capture_running>>
    /\ UNCHANGED <<scoring, verdict, stats, varsPool>>
    /\ UNCHANGED <<varsLog, varsNotification, varsSystem>>
    /\ UNCHANGED varsPrevention
    /\ UNCHANGED <<focus, op, unblock_failed, pre_block, zero_added, flow_enqueues,
                   evicted_flows>>

(* the detector takes the oldest flow off the queue (packet_queue.get) *)
GetFlow ==
    /\ packet_queue # <<>>
    /\ packet_queue' = Tail(packet_queue)
    /\ UNCHANGED <<flow_table, flow_expiry, capture_running>>
    /\ UNCHANGED varsPrevention
    /\ UNCHANGED varsDetection
    /\ UNCHANGED varsObservers

-----------------------------------------------------------------------------
(* Specifications *)

(* the blocklist under every operation of the control surface, the detector and the
   sweeper *)
NextPrevention ==
    \/ \E ip \in IpArgs, ok \in BOOLEAN : BlockIp(ip, ok)
    \/ \E ip \in IpArgs, d \in DurationArgs, ok \in BOOLEAN : ManualBlock(ip, d, ok)
    \/ \E ip \in Ips, ty \in AttackTypes, c \in Confidences, ok \in BOOLEAN :
          HandleDetectedAttack(ip, ty, c, ok)
    \/ \E ip \in IpArgs : \E ok \in UnblockOutcomes(ip) : UnblockIp(ip, ok)
    \/ \E okset \in SweepOutcomes : CleanupExpiredBlocks(okset)
    \/ \E cfg \in WhitelistConfigs \cup DurationConfigs : UpdatePreventionConfig(cfg)
    \/ Start
    \/ Stop
    \/ Tick

Init == InitPrevention /\ InitCapture /\ InitObservers("none") /\ InitDetection("None")

Next == NextPrevention

Spec == Init /\ [][Next]_vars

SpecPrevention == Init /\ [][NextPrevention]_vars

(* Add followed by Unblock, with the blocklist before the Add observed *)
NextLaw ==
    \/ \E ip \in IpArgs, d \in DurationArgs, ok \in BOOLEAN : ManualBlock(ip, d, ok)
    \/ \E ip \in Ips, ty \in AttackTypes, c \in Confidences, ok \in BOOLEAN :
          HandleDetectedAttack(ip, ty, c, ok)
    \/ \E ip \in IpArgs : \E ok \in UnblockOutcomes(ip) : UnblockIp(ip, ok)
    \/ \E cfg \in WhitelistConfigs : UpdatePreventionConfig(cfg)
    \/ Tick

InitLaw == InitPrevention /\ InitCapture /\ InitObservers("law") /\ InitDetection("None")

SpecLaw == InitLaw /\ [][NextLaw]_vars

(* the blocklist and the kernel chain across runs of the program, with the failed
   Unblock calls observed *)
NextLifecycle ==
    \/ \E ip \in Ips, d \in DurationArgs, ok \in BOOLEAN : ManualBlock(ip, d, ok)
    \/ \E ip \in Ips : \E ok \in UnblockOutcomes(ip) : UnblockIp(ip, ok)
    \/ \E okset \in SweepOutcomes : CleanupExpiredBlocks(okset)
    \/ \E cfg \in WhitelistConfigs : UpdatePreventionConfig(cfg)
    \/ Start
    \/ Stop
    \/ Tick
    \/ Construct

InitLifecycle == InitPrevention /\ InitCapture /\ InitObservers("window") /\ InitDetection("None")

SpecLifecycle == InitLifecycle /\ [][NextLifecycle]_vars

(* Adds of every duration under every configured duration, and the sweeper, with the
   Adds of duration 0 observed *)
NextZero ==
    \/ \E ip \in Ips, ok \in BOOLEAN : BlockIp(ip, ok)
    \/ \E ip \in Ips, d \in DurationArgs, ok \in BOOLEAN : ManualBlock(ip, d, ok)
    \/ \E okset \in SweepOutcomes : CleanupExpiredBlocks(okset)
    \/ \E cfg \in DurationConfigs : UpdatePreventionConfig(cfg)
    \/ Start
    \/ Tick

InitZero == InitPrevention /\ InitCapture /\ InitObservers("zero") /\ InitDetection("None")

SpecZero == InitZero /\ [][NextZero]_vars

(* the flow table under packets of every kind, the idle sweep and the consumer of
   the queue, with the enqueues of each flow lifetime observed *)
NextCapture ==
    \/ \E pkt \in Packets : Len(packet_queue) < MaxQueue /\ ProcessPacket(pkt)
    \/ CleanupOldFlows /\ Len(packet_queue') <= MaxQueue
    \/ GetFlow
    \/ StartCapture
    \/ StopCapture
    \/ Tick

InitLifetime == InitPrevention /\ InitCapture /\ InitObservers("lifetime") /\ InitDetection("None")

SpecCapture == InitLifetime /\ [][NextCapture]_vars

(* the detector's automatic path next to the manual one, auto_block being
   reconfigured, with the last handler observed *)
NextAutoBlock ==
    \/ \E ip \in Ips, ty \in AttackTypes, c \in Confidences, ok \in BOOLEAN :
          HandleDetectedAttack(ip, ty, c, ok)
    \/ \E ip \in IpArgs, ok \in BOOLEAN : ManualBlock(ip, NoDuration, ok)
    \/ \E ip \in IpArgs : \E ok \in UnblockOutcomes(ip) : UnblockIp(ip, ok)
    \/ \E cfg \in AutoBlockConfigs \cup WhitelistConfigs : UpdatePreventionConfig(cfg)

InitAutoBlock == InitPrevention /\ InitCapture /\ InitObservers("op") /\ InitDetection("None")

SpecAutoBlock == InitAutoBlock /\ [][NextAutoBlock]_vars

(* the engine being started and stopped while operators and the detector keep
   adding to the blocklist, with the last handler observed *)
NextStopped ==
    \/ \E ip \in IpArgs, ok \in BOOLEAN : BlockIp(ip, ok)
    \/ \E ip \in IpArgs, d \in DurationArgs, ok \in BOOLEAN : ManualBlock(ip, d, ok)
    \/ \E ip \in IpArgs : \E ok \in UnblockOutcomes(ip) : UnblockIp(ip, ok)
    \/ Start
    \/ Stop
    \/ Tick

InitStopped == InitPrevention /\ InitCapture /\ InitObservers("op") /\ InitDetection("None")

SpecStopped == InitStopped /\ [][NextStopped]_vars

(* the capture worker in front of a detector that falls behind: flows are emitted
   while the queue already holds buffer_size flows *)
NextBacklog ==
    \/ \E pkt \in Packets : Len(packet_queue) <= buffer_size /\ ProcessPacket(pkt)
    \/ CleanupOldFlows /\ Len(packet_queue') <= buffer_size + 1
    \/ GetFlow
    \/ StartCapture
    \/ StopCapture
    \/ Tick

InitBacklog == InitPrevention /\ InitCapture /\ InitObservers("none") /\ InitDetection("None")

SpecBacklog == InitBacklog /\ [][NextBacklog]_vars

(* the detector forwarding attacks to a notification service that is set up, the
   notification loop and the clock; at most MaxPending attacks wait for a mail *)
NextNotification ==
    \/ \E ip \in Ips, ty \in AttackTypes, c \in Confidences, ok \in BOOLEAN :
          Len(pending_notifications) < MaxPending /\ HandleDetectedAttack(ip, ty, c, ok)
    \/ NotificationLoop
    \/ StartNotification
    \/ StopNotification
    \/ Tick

InitNotification ==
    InitPrevention /\ InitCapture /\ InitObservers("none") /\ InitDetection("notify")

SpecNotification == InitNotification /\ [][NextNotification]_vars

(* analyze_flow on a flow scored by two models of which any may raise, under each
   combination method *)
NextScoring == AnalyzeFlow

InitScoredUnder(scorings, f) ==
    /\ InitPrevention /\ InitCapture /\ InitObservers(f)
    /\ attack_log = <<>>
    /\ log_rewrite = NoRewrite
    /\ notification_callback = "None"
    /\ pending_notifications = <<>>
    /\ last_notification_time = NeverNotified
    /\ notification_running = FALSE
    /\ last_mail = <<>>
    /\ scoring \in scorings
    /\ verdict = NoVerdict
    /\ flows = <<>>
    /\ stats = NoStats
    /\ thread_pool = "open"
    /\ futures = <<>>
    /\ detection_running = TRUE
    /\ shutdown = "idle"
    /\ InitThreads

InitScored(scorings) == InitScoredUnder(scorings, "none")

InitScoringErrors ==
    InitScored({Scoring(PlainFlow, <<a, b>>, m) :
                   a \in Answers \cup RaisingAnswers,
                   b \in Answers \cup RaisingAnswers,
                   m \in CombinationMethods})

SpecScoringErrors == InitScoringErrors /\ [][NextScoring]_vars

(* the detector's automatic path under every setting of auto_block, of the list of
   attack types it is restricted to and of the whitelist, with confidences around
   the blocking threshold *)
DecisionAttackTypes == {"SYN Flood", "UDP Flood"}
DecisionTypeSets == {{}, {"SYN Flood"}}
DecisionConfidences == {detection_threshold, BlockThreshold, BlockThreshold + 1}

NextDecision ==
    \/ \E ip \in Ips, ty \in DecisionAttackTypes, c \in DecisionConfidences,
          ok \in BOOLEAN : HandleDetectedAttack(ip, ty, c, ok)
    \/ \E ip \in Ips : \E ok \in UnblockOutcomes(ip) : UnblockIp(ip, ok)
    \/ \E cfg \in AutoBlockConfigs \cup WhitelistConfigs : UpdatePreventionConfig(cfg)

InitDecision ==
    /\ InitPreventionWith(DecisionTypeSets)
    /\ InitCapture /\ InitObservers("op") /\ InitDetection("None")

SpecDecision == InitDecision /\ [][NextDecision]_vars

(* analyze_flow on flows to and from streaming and other ports, with and without
   the flags of a SYN flood, short and long, steady and bursty, scored by one model *)
GuardFlows ==
    {ScoredFlow(40000, dst_port, 6, packets, (syn * packets) \div 10,
                ((10 - syn) * packets) \div 10, packets \div 10, cv) :
        dst_port \in {80, 5000}, packets \in {10, 200}, syn \in {5, 9}, cv \in {4, 9}}
    \cup
    {ScoredFlow(40000, dst_port, 17, packets, 0, 0, packets \div 10, cv) :
        dst_port \in {80, 5000}, packets \in {10, 200}, cv \in {4, 9}}

InitGuard ==
    InitScored({Scoring(f, <<a>>, "max_confidence") : f \in GuardFlows, a \in Answers})

SpecGuard == InitGuard /\ [][NextScoring]_vars

(* the detector logging attacks while the sweeper unblocks expired addresses and
   rewrites the attack log; a handler that needs the lock of the blocklist waits
   for the sweep to end, one that does not block runs in the middle of it *)
NextLogRace ==
    \/ \E ip \in Ips, ty \in AttackTypes, c \in Confidences, ok \in BOOLEAN :
          /\ Len(attack_log) < MaxLogRows
          /\ log_rewrite.stage = "none"
                \/ ~ShouldBlockAttack(ty, c, auto_block, auto_block_attack_types)
          /\ HandleDetectedAttack(ip, ty, c, ok)
    \/ \E ip \in Ips, ok \in BOOLEAN :
          log_rewrite.stage = "none" /\ ManualBlock(ip, NoDuration, ok)
    \/ \E okset \in SweepOutcomes : CleanupExpiredBlocksReading(okset)
    \/ WriteAttackLog
    \/ log_rewrite.stage = "none" /\ Start
    \/ Tick

InitLogRace ==
    InitPrevention /\ InitCapture /\ InitObservers("log") /\ InitDetection("None")

SpecLogRace == InitLogRace /\ [][NextLogRace]_vars

(* the attack log under the handlers that write it, each as one step: the
   detector's handler, manual blocks, unblocks and the sweeper *)
NextAttackLog ==
    \/ \E ip \in Ips, ty \in AttackTypes, c \in Confidences, ok \in BOOLEAN :
          Len(attack_log) < MaxLogRows /\ HandleDetectedAttack(ip, ty, c, ok)
    \/ \E ip \in Ips, ok \in BOOLEAN : ManualBlock(ip, NoDuration, ok)
    \/ \E ip \in Ips : \E ok \in UnblockOutcomes(ip) : UnblockIp(ip, ok)
    \/ \E okset \in SweepOutcomes : CleanupExpiredBlocks(okset)
    \/ Start
    \/ Tick

InitAttackLog ==
    InitPrevention /\ InitCapture /\ InitObservers("log") /\ InitDetection("None")

SpecAttackLog == InitAttackLog /\ [][NextAttackLog]_vars

(* DDoSDetectionSystem.start_all: the notification service and the prevention engine
   are started when they are not running *)
StartAll ==
    /\ shutdown = "idle"
    /\ notification_running' = TRUE
    /\ running' = TRUE
    /\ UNCHANGED <<blocked_ips, blocked_by_attack_type, whitelist, block_duration,
                   auto_block, auto_block_attack_types, rules, now, ret, calls>>
    /\ UNCHANGED <<notification_callback, pending_notifications, last_notification_time,
                   last_mail>>
    /\ unblock_threads' = Spawned(unblock_threads, ~running)
    /\ UNCHANGED <<varsLog, varsScoring, detection_running, shutdown, varsLock, capture_threads,
                   cleanup_threads>>
    /\ UNCHANGED <<varsCapture, varsObservers>>

(* DDoSDetectionSystem.start_detection: start_capture when the capture is not running,
   then DetectionEngine.start_detection *)
StartDetection ==
    /\ shutdown = "idle"
    /\ capture_running' = TRUE
    /\ detection_running' = TRUE
    /\ UNCHANGED <<flow_table, flow_expiry, packet_queue>>
    /\ capture_threads' = Spawned(capture_threads, ~capture_running)
    /\ cleanup_threads' = Spawned(cleanup_threads, ~capture_running)
    /\ UNCHANGED <<varsLog, varsNotification, varsScoring, shutdown, varsLock, unblock_threads>>
    /\ UNCHANGED <<varsPrevention, varsObservers>>

(* DetectionEngine.stop_detection returns at once when the engine is not running,
   else it ends with thread_pool.shutdown(wait=False) when there is a pool *)
PoolAfterStop ==
    IF detection_running /\ thread_pool = "open" THEN "shutdown" ELSE thread_pool

(* stop_all, one component after the other; `shutdown` names the component stopped
   last.  First DetectionEngine.stop_detection *)
StopAllDetection ==
    /\ shutdown = "idle"
    /\ detection_running' = FALSE
    /\ thread_pool' = PoolAfterStop
    /\ shutdown' = "detection"
    /\ UNCHANGED <<scoring, verdict, flows, stats, futures>>
    /\ UNCHANGED <<varsLog, varsNotification, varsThreads>>
    /\ UNCHANGED <<varsPrevention, varsCapture, varsObservers>>

(* then PacketCapture.stop_capture *)
StopAllCapture ==
    /\ shutdown = "detection"
    /\ capture_running' = FALSE
    /\ shutdown' = "capture"
    /\ UNCHANGED <<flow_table, flow_expiry, packet_queue>>
    /\ UNCHANGED <<varsLog, varsNotification, varsScoring, detection_running, varsThreads>>
    /\ UNCHANGED <<varsPrevention, varsObservers>>

(* then PreventionEngine.stop, which clears the flag of the sweeper and leaves the
   blocklist and the chain as they are *)
StopAllPrevention ==
    /\ shutdown = "capture"
    /\ running' = FALSE
    /\ shutdown' = "prevention"
    /\ UNCHANGED <<blocked_ips, blocked_by_attack_type, whitelist, block_duration,
                   auto_block, auto_block_attack_types, rules, now, ret, calls>>
    /\ UNCHANGED <<varsLog, varsNotification, varsScoring, detection_running, varsThreads>>
    /\ UNCHANGED <<varsCapture, varsObservers>>

(* and last NotificationService.stop, after which stop_all returns True *)
StopAllNotification ==
    /\ shutdown = "prevention"
    /\ notification_running' = FALSE
    /\ shutdown' = "done"
    /\ UNCHANGED <<notification_callback, pending_notifications, last_notification_time,
                   last_mail>>
    /\ UNCHANGED <<varsLog, varsScoring, detection_running, varsThreads>>
    /\ UNCHANGED <<varsPrevention, varsCapture, varsObservers>>

(* a run of the whole system up to and through its shutdown: the components are
   started, addresses are blocked by hand and by the detector, the sweeper runs
   while its engine does, and stop_all ends the run *)
NextShutdown ==
    \/ StartAll
    \/ StartDetection
    \/ \E ip \in Ips, d \in Durations, ok \in BOOLEAN :
          shutdown = "idle" /\ ManualBlock(ip, d, ok)
    \/ \E ip \in Ips, ty \in AttackTypes, c \in Confidences, ok \in BOOLEAN :
          detection_running /\ HandleDetectedAttack(ip, ty, c, ok)
    \/ \E okset \in SweepOutcomes : running /\ CleanupExpiredBlocks(okset)
    \/ Tick
    \/ StopAllDetection
    \/ StopAllCapture
    \/ StopAllPrevention
    \/ StopAllNotification

InitShutdown ==
    InitPrevention /\ InitCapture /\ InitObservers("none") /\ InitDetection("None")

SpecShutdown == InitShutdown /\ [][NextShutdown]_vars

(* the weighted combination over every answer of two and more models, on a flow the
   false positive reduction leaves alone; the confidences make a weighted sum of
   zero (6 * 6 = 4 * 9) and one above 1 (three models at 0.9) happen *)
MaxModels == 3

FusionConfidences == {5, 6, 9}

FusionAnswers ==
    {ModelAnswer(ty, FALSE, l, c) : ty \in ModelTypes, l \in Labels, c \in FusionConfidences}

FusionModels == UNION {[1..n -> FusionAnswers] : n \in 2..MaxModels}

InitFusion == InitScored({Scoring(PlainFlow, ms, "weighted") : ms \in FusionModels})

SpecFusion == InitFusion /\ [][NextScoring]_vars

(* the voting combination over every answer of two and more models, on a flow the
   false positive reduction leaves alone *)
InitVoting == InitScored({Scoring(PlainFlow, ms, "voting") : ms \in FusionModels})

SpecVoting == InitVoting /\ [][NextScoring]_vars

(* a thread in _auto_unblock_loop reads `while self.running` as False and returns;
   stop() waits for it for 2 s at most, the loop sleeps 10 s between two reads *)
AutoUnblockLoopExit ==
    /\ unblock_threads > 0
    /\ ~running
    /\ unblock_threads' = unblock_threads - 1
    /\ UNCHANGED <<varsLog, varsNotification, varsScoring, detection_running, shutdown, varsLock,
                   capture_threads, cleanup_threads>>
    /\ UNCHANGED <<varsPrevention, varsCapture, varsObservers>>

(* sniff() returns in a thread of _capture_packets: its stop_filter is evaluated on
   the next packet and finds `running` False *)
CapturePacketsExit ==
    /\ capture_threads > 0
    /\ ~capture_running
    /\ capture_threads' = capture_threads - 1
    /\ UNCHANGED <<varsLog, varsNotification, varsScoring, detection_running, shutdown, varsLock,
                   unblock_threads, cleanup_threads>>
    /\ UNCHANGED <<varsPrevention, varsCapture, varsObservers>>

(* a thread in _cleanup_old_flows reads `while self.running` as False and returns *)
CleanupOldFlowsExit ==
    /\ cleanup_threads > 0
    /\ ~capture_running
    /\ cleanup_threads' = cleanup_threads - 1
    /\ UNCHANGED <<varsLog, varsNotification, varsScoring, detection_running, shutdown, varsLock,
                   unblock_threads, capture_threads>>
    /\ UNCHANGED <<varsPrevention, varsCapture, varsObservers>>

(* the prevention engine started, stopped and reconfigured while its sweeper threads
   come and go; at most MaxThreads of them are followed *)
MaxThreads == 2

NextSweepers ==
    \/ (running \/ unblock_threads < MaxThreads) /\ Start
    \/ Stop
    \/ \E cfg \in AutoBlockConfigs :
          (~running \/ unblock_threads < MaxThreads) /\ UpdatePreventionConfig(cfg)
    \/ AutoUnblockLoopExit
    \/ \E ip \in Ips, d \in Durations, ok \in BOOLEAN : ManualBlock(ip, d, ok)
    \/ \E okset \in SweepOutcomes : unblock_threads > 0 /\ CleanupExpiredBlocks(okset)
    \/ Tick

InitSweepers ==
    InitPrevention /\ InitCapture /\ InitObservers("threads") /\ InitDetection("None")

SpecSweepers == InitSweepers /\ [][NextSweepers]_vars

(* the capture started and stopped while its worker and sweeper threads come and go
   and packets arrive *)
NextCaptureThreads ==
    \/ /\ capture_running \/ (capture_threads < MaxThreads /\ cleanup_threads < MaxThreads)
       /\ StartCapture
    \/ StopCapture
    \/ CapturePacketsExit
    \/ CleanupOldFlowsExit
    \/ \E pkt \in Packets :
          capture_threads > 0 /\ Len(packet_queue) < MaxQueue /\ ProcessPacket(pkt)
    \/ cleanup_threads > 0 /\ CleanupOldFlows /\ Len(packet_queue') <= MaxQueue
    \/ GetFlow
    \/ Tick

InitCaptureThreads ==
    InitPrevention /\ InitCapture /\ InitObservers("threads") /\ InitDetection("None")

SpecCaptureThreads == InitCaptureThreads /\ [][NextCaptureThreads]_vars

(* the flow table under pressure, with the flows each packet pushes out observed *)
InitEviction ==
    InitPrevention /\ InitCapture /\ InitObservers("evict") /\ InitDetection("None")

SpecEviction == InitEviction /\ [][NextCapture]_vars

(* the capture with its expiry sweeper scheduled: the thread of _cleanup_old_flows
   runs an iteration every 10 s for as long as `running` is set, and the queue it
   writes to never refuses a flow *)
SweepPackets == {TcpPacket(1, 1, 2, 1, 2), TcpPacket(2, 1, 1, 1, 1), UdpPacket(2, 2, 2, 1, 1)}

NextSweep ==
    \/ \E pkt \in SweepPackets : Len(packet_queue) < MaxQueue /\ ProcessPacket(pkt)
    \/ CleanupOldFlows
    \/ GetFlow
    \/ StartCapture
    \/ StopCapture
    \/ Tick

InitSweep == InitPrevention /\ InitCapture /\ InitObservers("none") /\ InitDetection("None")

SpecSweep == InitSweep /\ [][NextSweep]_vars /\ WF_vars(CleanupOldFlows)

(* TCP and UDP packets between every pair of endpoints, those from an endpoint to
   itself included *)
KeyPackets ==
    {TcpPacket(src_ip, src_port, dst_ip, dst_port, 1) :
        src_ip \in 1..2, src_port \in 1..2, dst_ip \in 1..2, dst_port \in 1..2}
    \cup
    {UdpPacket(src_ip, src_port, dst_ip, dst_port, 1) :
        src_ip \in 1..2, src_port \in 1..2, dst_ip \in 1..2, dst_port \in 1..2}

NextFlowKey ==
    \/ \E pkt \in KeyPackets : Len(packet_queue) < MaxQueue /\ ProcessPacket(pkt)
    \/ GetFlow
    \/ StartCapture

InitFlowKey == InitPrevention /\ InitCapture /\ InitObservers("none") /\ InitDetection("None")

SpecFlowKey == InitFlowKey /\ [][NextFlowKey]_vars

(* the detector behind the capture: flows of two connections reach the queue by the
   size trigger and by the idle sweep and the detection loop takes its batches; the
   queue is followed up to batch_size + 1 flows *)
NextDetector ==
    \/ \E pkt \in SweepPackets : Len(packet_queue) <= batch_size /\ ProcessPacket(pkt)
    \/ CleanupOldFlows /\ Len(packet_queue') <= batch_size + 1
    \/ DetectionLoop
    \/ StartDetection
    \/ Tick

InitDetector == InitPrevention /\ InitCapture /\ InitObservers("batch") /\ InitDetection("None")

SpecDetector == InitDetector /\ [][NextDetector]_vars

(* analyze_flow with its counter of false positives: the flows of SpecGuard scored
   by one model whose confidence is below, at and above each of the two thresholds;
   the counter is followed up to MaxCounted *)
MaxCounted == 2

BandConfidences == {5, detection_threshold, false_positive_threshold, 9}

BandAnswers ==
    {ModelAnswer(ty, FALSE, l, c) : ty \in ModelTypes, l \in Labels, c \in BandConfidences}

NextBand == stats.false_positives < MaxCounted /\ AnalyzeFlow

InitBand ==
    InitScoredUnder({Scoring(f, <<a>>, "max_confidence") :
                        f \in GuardFlows, a \in BandAnswers}, "stats")

SpecBand == InitBand /\ [][NextBand]_vars

(* DetectionEngine._process_flows and the workers of its pool *)

(* a flow as _process_flows reads it: key, source address and what the
   false-positive check looks at *)
PoolFlow(flow_key, src_ip, dst_port) ==
    [flow_key |-> flow_key, src_ip |-> src_ip, src_port |-> 40000,
     dst_port |-> dst_port, protocol |-> 6, packets |-> 10, syn |-> 5, ack |-> 5,
     iat_len |-> 9, cv |-> 9]

(* flow.get(key, default) *)
FlowGet(flow, key, default) == IF key \in DOMAIN flow THEN flow[key] ELSE default

(* FeatureExtractor.default_values['Protocol'] *)
DefaultProtocol == 6

(* _get_protocol_number: protocol_map.get(proto.lower(), 0) *)
ProtocolNumber(proto) ==
    CASE proto \in {"tcp", "TCP"} -> 6
      [] proto \in {"udp", "UDP"} -> 17
      [] proto \in {"icmp", "ICMP"} -> 1
      [] proto \in {"ipv6-icmp", "IPv6-ICMP"} -> 58
      [] OTHER -> 0

NoFeatures == [InitFwdWinBytes |-> 0, Protocol |-> 0]

(* _extract_cicddos_features, the two features that follow the packet lengths: Init
   Fwd Win Bytes from flow['init_win_bytes_forward'], then Protocol from
   `flow_data.get('protocol', 'tcp').lower()`.  The protocol of a flow is the number
   the capture took from the IP header, an int, which has no lower(): the
   AttributeError is caught and the feature is filled from default_values.  A flow
   without the key gives 'tcp'. *)
ExtractCicddosFeatures(flow) ==
    [InitFwdWinBytes |-> FlowGet(flow, "init_win_bytes_forward", 0),
     Protocol |-> IF "protocol" \in DOMAIN flow THEN DefaultProtocol
                  ELSE ProtocolNumber("tcp")]

(* a future of the pool: the flow submitted, how far analyze_flow has come on it
   ("submitted"; "counting" between the read and the write of
   `self.stats['false_positives'] += 1`; "done"), the counter as it was read, and
   the verdict.  Without a pool these are the flows the loop of _process_flows has
   still to analyse, in order. *)
Future(flow) ==
    [flow |-> flow, pc |-> "submitted", read |-> 0, result |-> NoVerdict,
     features |-> NoFeatures]

(* _process_flows up to the end of its submissions: thread_pool.submit of every flow
   of the batch; submit on a pool that was shut down raises RuntimeError, which
   leaves _process_flows and is logged by _detection_loop *)
ProcessFlows ==
    /\ flows # <<>>
    /\ futures = <<>>
    /\ futures' = IF thread_pool = "shutdown" THEN <<>>
                  ELSE [i \in DOMAIN flows |-> Future(flows[i])]
    /\ flows' = <<>>
    /\ UNCHANGED <<scoring, verdict, stats, thread_pool>>
    /\ UNCHANGED <<varsLog, varsNotification, varsSystem>>
    /\ UNCHANGED <<varsPrevention, varsCapture, varsObservers>>

(* analyze_flow on the flow of future `i`, `answer` being what the model answers
   for it, up to its read of stats['false_positives'], or to its end when it does
   not count a false positive; without a pool the flows are analysed in order *)
WorkerAnalyze(i, answer) ==
    /\ i \in DOMAIN futures
    /\ futures[i].pc = "submitted"
    /\ thread_pool = "None" => i = 1
    /\ LET sc == Scoring(futures[i].flow, <<answer>>, "max_confidence")
           counts == CountsFalsePositive(sc)
       IN  futures' = [futures EXCEPT
                          ![i] = [flow |-> futures[i].flow,
                                  pc |-> IF counts THEN "counting" ELSE "done",
                                  read |-> IF counts THEN stats.false_positives ELSE 0,
                                  result |-> AnalyzeFlowResult(sc),
                                  features |-> ExtractCicddosFeatures(futures[i].flow)]]
    /\ UNCHANGED <<scoring, verdict, flows, stats, thread_pool>>
    /\ UNCHANGED <<varsLog, varsNotification, varsSystem>>
    /\ UNCHANGED <<varsPrevention, varsCapture, varsObservers>>

(* the write of `self.stats['false_positives'] += 1`, which analyze_flow does
   outside self.lock: the value read plus one is stored *)
WorkerCount(i) ==
    /\ i \in DOMAIN futures
    /\ futures[i].pc = "counting"
    /\ stats' = IF StatsTracked
                THEN [stats EXCEPT !.false_positives = futures[i].read + 1]
                ELSE stats
    /\ futures' = [futures EXCEPT ![i].pc = "done"]
    /\ UNCHANGED <<scoring, verdict, flows, thread_pool>>
    /\ UNCHANGED <<varsLog, varsNotification, varsSystem>>
    /\ UNCHANGED <<varsPrevention, varsCapture, varsObservers>>

(* every verdict of attack, whatever its confidence *)
IsHandledAnyConfidence(v) == v.is_attack

(* `is_attack and confidence >= self.detection_threshold` on a verdict *)
IsHandled(v) == v.is_attack /\ v.confidence >= 10 * detection_threshold

(* _process_flows on the result of its next future: future.result(), then
   _handle_detected_attack or the benign counter; `ok` is the outcome of the Block
   effector call.  The verdict carries hundredths, the handler takes tenths. *)
TakeResult(ok) ==
    /\ futures # <<>>
    /\ Head(futures).pc = "done"
    /\ futures' = Tail(futures)
    /\ LET f == Head(futures)
       IN  IF IsHandled(f.result)
           THEN HandleAttack(FlowGet(f.flow, "src_ip", UnknownIp), f.result.attack_type,
                             f.result.confidence \div 10, ok)
           ELSE /\ ok
                /\ stats' = Counted(stats, "benign_flows_analyzed")
                /\ UNCHANGED <<varsLog, varsNotification, varsSystem>>
                /\ UNCHANGED <<varsPrevention, varsCapture, varsObservers>>
    /\ UNCHANGED <<scoring, verdict, flows, thread_pool>>

(* batches of up to batch_size flows of different keys: two to a streaming port,
   one to another port, one of them from a whitelisted address *)
PoolFlows == {PoolFlow(1, 2, 80), PoolFlow(2, 1, 80), PoolFlow(3, 2, 5000)}

PoolBatches ==
    {<<f>> : f \in PoolFlows}
    \cup {b \in {<<f, g>> : f \in PoolFlows, g \in PoolFlows} : b[1] # b[2]}

(* what the model answers for a flow: an attack below the detection threshold, one
   in the band of the false-positive check, one above it, no attack *)
PoolAnswers ==
    {ModelAnswer("cicddos", FALSE, "Syn", 5),
     ModelAnswer("cicddos", FALSE, "Syn", detection_threshold),
     ModelAnswer("cicddos", FALSE, "Syn", 9),
     ModelAnswer("cicddos", FALSE, "Benign", 9)}

(* one batch through _process_flows, with and without the pool *)
NextPool ==
    \/ ProcessFlows
    \/ \E i \in 1..batch_size, a \in PoolAnswers : WorkerAnalyze(i, a)
    \/ \E i \in 1..batch_size : WorkerCount(i)
    \/ \E ok \in BOOLEAN : TakeResult(ok)

InitPool ==
    /\ InitPrevention /\ InitCapture /\ InitObservers("stats")
    /\ InitDetectionFrom("None", {"None", "open"}, PoolBatches)

SpecPool == InitPool /\ [][NextPool]_vars

(* DDoSDetectionSystem.stop_detection: DetectionEngine.stop_detection, then
   stop_capture when the capture is running *)
StopDetection ==
    /\ shutdown = "idle"
    /\ detection_running' = FALSE
    /\ thread_pool' = PoolAfterStop
    /\ capture_running' = FALSE
    /\ UNCHANGED <<flow_table, flow_expiry, packet_queue>>
    /\ UNCHANGED <<scoring, verdict, flows, stats, futures>>
    /\ UNCHANGED <<varsLog, varsNotification, shutdown, varsThreads>>
    /\ UNCHANGED <<varsPrevention, varsObservers>>

(* _send_flow_to_queue of a flow of the running capture: packet_queue.put *)
SendFlowToQueue(flow) ==
    /\ capture_running
    /\ packet_queue' = Append(packet_queue, flow)
    /\ UNCHANGED <<flow_table, flow_expiry, capture_running>>
    /\ UNCHANGED varsPrevention
    /\ UNCHANGED varsDetection
    /\ UNCHANGED varsObservers

(* the detector stopped and started again while the capture sends flows: the queue
   is followed up to batch_size flows and the counters up to MaxCounted flows *)
NextRestart ==
    \/ \E flow \in PoolFlows : Len(packet_queue) < batch_size /\ SendFlowToQueue(flow)
    \/ /\ flows = <<>>
       /\ stats.attack_flows_detected + stats.benign_flows_analyzed < MaxCounted
       /\ DetectionLoop
    \/ ProcessFlows
    \/ \E i \in 1..batch_size, a \in PoolAnswers : WorkerAnalyze(i, a)
    \/ \E i \in 1..batch_size : WorkerCount(i)
    \/ \E ok \in BOOLEAN : TakeResult(ok)
    \/ StopDetection
    \/ StartDetection

InitRestart ==
    /\ InitPrevention /\ InitCapture /\ InitObservers("stats") /\ InitDetection("None")

SpecRestart == InitRestart /\ [][NextRestart]_vars

(* the detector reporting attacks to a notification service whose email sender may
   fail; the pending list is followed up to MaxPending attacks *)
NextMail ==
    \/ \E ip \in Ips, ty \in AttackTypes, c \in Confidences, ok \in BOOLEAN :
          Len(pending_notifications) < MaxPending /\ HandleDetectedAttack(ip, ty, c, ok)
    \/ \E ok \in BOOLEAN : NotificationLoopSending(ok)
    \/ StartNotification
    \/ Tick

InitMail ==
    InitPrevention /\ InitCapture /\ InitObservers("none") /\ InitDetection("notify")

SpecMail == InitMail /\ [][NextMail]_vars

(* the capture feeding the detector: both directions of a TCP connection with
   different windows, a UDP, an ICMP and an ICMPv6 packet; the detection loop
   takes a batch and the pool extracts the features of its flows.  The model
   answers are outside the band of the false-positive check. *)
FwdWindow == 5
BwdWindow == 7

FeaturePackets ==
    {TcpSegment(1, 1, 2, 1, 1, FwdWindow), TcpSegment(2, 1, 1, 1, 1, BwdWindow),
     UdpPacket(2, 2, 2, 1, 1), IcmpPacket(2, 1, 8, 0, 1), Icmp6Packet(2, 1, 128, 1)}

FeatureAnswers ==
    {ModelAnswer("cicddos", FALSE, "Syn", 9), ModelAnswer("cicddos", FALSE, "Benign", 9)}

NextFeatures ==
    \/ \E pkt \in FeaturePackets : Len(packet_queue) < batch_size /\ ProcessPacket(pkt)
    \/ flows = <<>> /\ DetectionLoop
    \/ ProcessFlows
    \/ \E i \in 1..batch_size, a \in FeatureAnswers : WorkerAnalyze(i, a)
    \/ StartDetection

InitFeatures ==
    /\ InitPrevention /\ InitCapture /\ InitObservers("none") /\ InitDetection("None")

SpecFeatures == InitFeatures /\ [][NextFeatures]_vars

(* the capture and the copies it has put on the queue: packets of both directions
   of one TCP connection and of a UDP flow keep arriving on flows that were sent
   for scoring; the lists of the flows are followed *)
NextCopy ==
    \/ \E pkt \in SweepPackets : Len(packet_queue) < batch_size /\ ProcessPacket(pkt)
    \/ StartCapture
    \/ Tick

InitCopy == InitPrevention /\ InitCapture /\ InitObservers("copy") /\ InitDetection("None")

SpecCopy == InitCopy /\ [][NextCopy]_vars

(* The locks.  Each component guards its state with one threading.RLock; its loop
   takes the lock in every round, its start and stop run wholly inside it, and
   stop joins the loop's thread before it leaves the lock.  A thread is "dead"
   (not started, or its function has returned; for the pool worker: no task),
   "run" (outside every lock), "wait" (blocked at `with self.lock`), "held"
   (inside it), "result" (the detection thread in future.result()), and the
   control thread is "idle" between calls and "join" inside Thread.join.  One
   thread per loop is followed: a start that finds the old thread still alive
   leaves it running in the place of the new one. *)

(* self.running of the component *)
RunningOf(c) ==
    CASE c = "capture" -> capture_running
      [] c = "detection" -> detection_running
      [] c = "prevention" -> running
      [] OTHER -> notification_running

(* self.running = v in the component, the other components' flags kept *)
SetRunning(c, v) ==
    /\ capture_running' = IF c = "capture" THEN v ELSE capture_running
    /\ detection_running' = IF c = "detection" THEN v ELSE detection_running
    /\ running' = IF c = "prevention" THEN v ELSE running
    /\ notification_running' = IF c = "notification" THEN v ELSE notification_running

varsRunning == <<capture_running, detection_running, running, notification_running>>

(* what the steps of the threads at the locks leave alone *)
varsBesideLocks ==
    <<blocked_ips, blocked_by_attack_type, whitelist, block_duration, auto_block,
      auto_block_attack_types, rules, now, ret, calls, varsObservers, flow_table,
      flow_expiry, packet_queue, varsLog, notification_callback, pending_notifications,
      last_notification_time, last_mail, varsScoring, shutdown, unblock_threads,
      capture_threads, cleanup_threads>>

(* the locks a thread takes; it leaves one before it takes the next *)
LocksTaken(t) ==
    CASE t \in {"capture_thread", "cleanup_thread"} -> {"capture"}
      [] t = "detection_thread" -> {"detection", "prevention", "notification"}
      [] t = "pool_worker" -> {"detection"}
      [] t = "unblock_thread" -> {"prevention"}
      [] t = "notification_thread" -> {"notification"}
      [] t = "stats_thread" -> {"detection", "prevention"}
      [] OTHER -> Components

(* the component whose self.running the loop of thread t reads *)
Home(t) == CHOOSE c \in Components : \E i \in DOMAIN JoinedThreads(c) : JoinedThreads(c)[i] = t

IsAlive(t) == thread_pc[t].pc # "dead"

(* the timeout of every join of a stop, in seconds *)
JoinTimeout == 2

(* Thread.join() without a timeout returns when the thread has ended *)
JoinUntilExit(t) == ~IsAlive(t)

(* Thread.join(timeout=JoinTimeout) returns when the thread has ended or the
   timeout has passed *)
Join(t) == ~IsAlive(t) \/ JoinTimeout > 0

Moved(t, pc, c) == thread_pc' = [thread_pc EXCEPT ![t] = At(pc, c)]

(* a loop, the pool worker or the stats thread reaches `with self.lock` of c *)
WaitLock(t, c) ==
    /\ t # "control"
    /\ thread_pc[t].pc = "run"
    /\ c \in LocksTaken(t)
    /\ Moved(t, "wait", c)
    /\ UNCHANGED <<lock, call, varsRunning, varsBesideLocks>>

(* RLock.acquire returns *)
AcquireLock(t) ==
    /\ thread_pc[t].pc = "wait"
    /\ lock[thread_pc[t].on] = NoThread
    /\ lock' = [lock EXCEPT ![thread_pc[t].on] = t]
    /\ Moved(t, "held", thread_pc[t].on)
    /\ UNCHANGED <<call, varsRunning, varsBesideLocks>>

(* the end of the `with` block of a loop, of analyze_flow or of a getter *)
ReleaseLock(t) ==
    /\ t # "control"
    /\ thread_pc[t].pc = "held"
    /\ lock' = [lock EXCEPT ![thread_pc[t].on] = NoThread]
    /\ Moved(t, IF t = "pool_worker" THEN "dead" ELSE "run", "None")
    /\ UNCHANGED <<call, varsRunning, varsBesideLocks>>

(* `while self.running:` of a loop finds the flag cleared *)
LoopExit(t) ==
    /\ t \in WorkerThreads
    /\ thread_pc[t].pc = "run"
    /\ ~RunningOf(Home(t))
    /\ Moved(t, "dead", "None")
    /\ UNCHANGED <<lock, call, varsRunning, varsBesideLocks>>

(* _process_flows: thread_pool.submit(self.analyze_flow, flow), then
   future.result(); analyze_flow ends inside the detector's lock *)
Submit ==
    /\ thread_pc["detection_thread"].pc = "run"
    /\ ~IsAlive("pool_worker")
    /\ thread_pc' = [thread_pc EXCEPT !["detection_thread"] = At("result", "None"),
                                      !["pool_worker"] = At("wait", "detection")]
    /\ UNCHANGED <<lock, call, varsRunning, varsBesideLocks>>

(* future.result() returns *)
FutureResult ==
    /\ thread_pc["detection_thread"].pc = "result"
    /\ ~IsAlive("pool_worker")
    /\ Moved("detection_thread", "run", "None")
    /\ UNCHANGED <<lock, call, varsRunning, varsBesideLocks>>

(* start_all: self.stats_thread.start() *)
StartStatsThread ==
    /\ ~IsAlive("stats_thread")
    /\ Moved("stats_thread", "run", "None")
    /\ UNCHANGED <<lock, call, varsRunning, varsBesideLocks>>

(* the control surface is called: start or stop of component c, or "op" for
   block_ip, unblock_ip, a getter of the statistics or update_config *)
BeginCall(name, c) ==
    /\ thread_pc["control"].pc = "idle"
    /\ call' = [name |-> name, on |-> c, joining |-> 0]
    /\ Moved("control", "wait", c)
    /\ UNCHANGED <<lock, varsRunning, varsBesideLocks>>

(* the call leaves the lock and returns *)
Returned(c) ==
    /\ lock' = [lock EXCEPT ![c] = NoThread]
    /\ call' = NoCall

(* start_capture, start_detection, PreventionEngine.start, NotificationService.start *)
StartLocked ==
    LET c == call.on
        started == {JoinedThreads(c)[i] : i \in DOMAIN JoinedThreads(c)}
    IN  /\ thread_pc["control"].pc = "held"
        /\ call.name = "start"
        /\ SetRunning(c, TRUE)
        /\ thread_pc' = [t \in Threads |->
               IF t = "control" THEN At("idle", "None")
               ELSE IF t \in started /\ ~RunningOf(c) /\ ~IsAlive(t) THEN At("run", "None")
               ELSE thread_pc[t]]
        /\ Returned(c)
        /\ UNCHANGED varsBesideLocks

(* stop_capture, stop_detection, PreventionEngine.stop, NotificationService.stop up
   to the first join *)
StopLocked ==
    LET c == call.on
    IN  /\ thread_pc["control"].pc = "held"
        /\ call.name = "stop"
        /\ SetRunning(c, FALSE)
        /\ IF RunningOf(c)
           THEN /\ Moved("control", "join", c)
                /\ call' = [call EXCEPT !.joining = 1]
                /\ UNCHANGED lock
           ELSE /\ Moved("control", "idle", "None")
                /\ Returned(c)
        /\ UNCHANGED varsBesideLocks

(* a join of the stop returns; after the last one the stop leaves the lock *)
JoinReturns ==
    LET c == call.on
    IN  /\ thread_pc["control"].pc = "join"
        /\ Join(JoinedThreads(c)[call.joining])
        /\ IF call.joining < Len(JoinedThreads(c))
           THEN /\ call' = [call EXCEPT !.joining = @ + 1]
                /\ UNCHANGED <<lock, thread_pc>>
           ELSE /\ Moved("control", "idle", "None")
                /\ Returned(c)
        /\ UNCHANGED <<varsRunning, varsBesideLocks>>

(* block_ip, unblock_ip, get_detection_stats, get_blocked_ips, update_config *)
OpLocked ==
    /\ thread_pc["control"].pc = "held"
    /\ call.name = "op"
    /\ Moved("control", "idle", "None")
    /\ Returned(call.on)
    /\ UNCHANGED <<varsRunning, varsBesideLocks>>

CallNames == {"start", "stop", "op"}

ControlStep == AcquireLock("control") \/ StartLocked \/ StopLocked \/ JoinReturns \/ OpLocked

(* A thread holds one lock at a time, so who waits for the lock of a component
   depends on the threads that take that lock only.  The lock of one component is
   followed (focus): the control surface starts, stops and calls that component
   and starts the components whose loops take its lock. *)
Followed(c) == c = focus

TakesFollowed(c) ==
    \E i \in DOMAIN JoinedThreads(c) : focus \in LocksTaken(JoinedThreads(c)[i])

NextLocks ==
    \/ \E name \in CallNames, c \in Components :
          /\ Followed(c) \/ (name = "start" /\ TakesFollowed(c))
          /\ BeginCall(name, c)
    \/ ControlStep
    \/ \E t \in Threads \ {"control"} :
          \/ \E c \in Components : Followed(c) /\ WaitLock(t, c)
          \/ AcquireLock(t)
          \/ ReleaseLock(t)
          \/ LoopExit(t)
    \/ Followed("detection") /\ Submit
    \/ FutureResult
    \/ StartStatsThread

InitLockSpec ==
    /\ InitPrevention /\ InitCapture /\ InitDetection("None")
    /\ \E c \in Components : InitObservers(c)

(* the scheduling: a thread that can move does, a loop leaves its lock and sleeps
   outside it, so a caller blocked at the lock gets it *)
FairLocks ==
    /\ WF_vars(StartLocked \/ StopLocked \/ JoinReturns \/ OpLocked)
    /\ SF_vars(AcquireLock("control"))
    /\ \A t \in Threads \ {"control"} : WF_vars(ReleaseLock(t))

SpecLocks == InitLockSpec /\ [][NextLocks]_vars /\ FairLocks

-----------------------------------------------------------------------------
(* Properties *)

(* C1: after any sequence of block_ip, manual_block, unblock_ip, sweeps and
   replacements of the whitelist through update_config, no address of the blocklist
   is whitelisted, neither by an exact entry nor by a network that contains it *)
C1_NoWhitelistedAddressBlocked ==
    \A ip \in DictKeys(blocked_ips) : ~IsIpWhitelisted(ip, whitelist)

(* C2: an address is in blocked_ips exactly when the chain DDOS_PROTECTION holds a
   DROP rule for it, except for an address whose Unblock effector call failed and
   for which no sweep has begun since *)
C2_BlockedIffDropRule ==
    \A ip \in Ips :
        \/ DictHas(blocked_ips, ip) <=> rules[ip] > 0
        \/ ip \in unblock_failed

(* C3: under any interleaving of packet processing and the idle sweep, a flow is put
   on the scoring queue at most once between its creation in the flow table and its
   removal, whether by the size trigger or by the idle trigger *)
C3_FlowEnqueuedAtMostOnce ==
    \A k \in FlowKeys : flow_enqueues[k] <= 1

(* a flow that the size trigger put on the queue has received a further packet, and
   the queue holds it once only *)
C3_Witness ==
    \E k \in DictKeys(flow_table) :
        /\ DictGet(flow_table, k).analyzed
        /\ DictGet(flow_table, k).packets > max_packets_per_flow
        /\ flow_enqueues[k] = 1

(* C4: for every flow in the flow table, after every packet update,
   fwd_packets + bwd_packets = packets and fwd_bytes + bwd_bytes = bytes *)
C4_DirectionalCountersSum ==
    \A k \in DictKeys(flow_table) :
        LET flow == DictGet(flow_table, k)
        IN  /\ flow.fwd_packets + flow.bwd_packets = flow.packets
            /\ flow.fwd_bytes + flow.bwd_bytes = flow.bytes

(* a flow has counted packets of both directions *)
C4_Witness ==
    \E k \in DictKeys(flow_table) :
        /\ DictGet(flow_table, k).fwd_packets > 0
        /\ DictGet(flow_table, k).bwd_packets > 0
        /\ DictGet(flow_table, k).bytes > DictGet(flow_table, k).packets

(* C5: while auto_block is false the detector's attack handler adds no entry and
   issues no effector call, whatever the attack's type and confidence; a manual
   block of a non-whitelisted address whose Block effector call does not fail
   still leaves the address in the blocklist *)
C5_AutoBlockOffOnlyManualAdds ==
    [][~auto_block =>
         /\ op'.name = "attack" =>
               /\ blocked_ips' = blocked_ips
               /\ blocked_by_attack_type' = blocked_by_attack_type
               /\ rules' = rules
               /\ calls' = <<>>
         /\ (/\ op'.name = "manual_block"
             /\ op'.ip # NoIp
             /\ ~IsIpWhitelisted(op'.ip, whitelist)
             /\ calls' # <<Call("block", op'.ip, FALSE)>>) =>
               /\ DictHas(blocked_ips', op'.ip)
               /\ ret' = "True"]_vars

(* an attack confident enough to be blocked, from a non-whitelisted address not yet
   blocked, was handled with auto_block off *)
C5_Witness ==
    /\ ~auto_block
    /\ op.name = "attack"
    /\ op.confidence >= BlockThreshold
    /\ ~IsIpWhitelisted(op.ip, whitelist)
    /\ ~DictHas(blocked_ips, op.ip)
    /\ ret = "None"

Max(a, b) == IF a >= b THEN a ELSE b

(* C6: an Add for an address that is already blocked creates neither a second entry
   nor a second firewall rule, sets the entry's expiry to the maximum of its
   previous expiry and (time of this Add + duration), the duration being the
   argument when one is given and the configured block_duration otherwise, and
   returns true *)
C6_AddOnBlockedExtends ==
    [][\A ip \in Ips, d \in DurationArgs, ok \in BOOLEAN :
          (ManualBlock(ip, d, ok) /\ DictHas(blocked_ips, ip)) =>
              /\ Len(blocked_ips') = Len(blocked_ips)
              /\ DictKeys(blocked_ips') = DictKeys(blocked_ips)
              /\ rules' = rules
              /\ calls' = <<>>
              /\ DictGet(blocked_ips', ip) =
                    Max(DictGet(blocked_ips, ip),
                        now + (IF d = NoDuration THEN block_duration ELSE d))
              /\ ret' = "True"]_vars

(* the snapshot get_blocked_ips would return at the clock reading `now` *)
Snapshot(b, t) == GetBlockedIps(b, t, now)

(* C7 as stated: an Add of address a followed by a successful unblock_ip(a) leaves
   the snapshot of get_blocked_ips as it was before the Add, for every address and
   every blocklist the Add started from *)
C7_BlockUnblockRestoresAlways ==
    (pre_block.stage = "add_unblock" /\ ret = "True") =>
        Snapshot(blocked_ips, blocked_by_attack_type) =
            Snapshot(pre_block.ips, pre_block.types)

(* C7: an Add of an address a that was not in the blocklist, followed by an
   unblock_ip(a) whose Unblock effector call succeeds, leaves the snapshot of
   get_blocked_ips (the entries in order, each with ip, attack type and expiry, read
   at the same clock reading) as it was before the Add *)
C7_BlockUnblockRestoresUnblocked ==
    (/\ pre_block.stage = "add_unblock"
     /\ ~DictHas(pre_block.ips, pre_block.ip)
     /\ ret = "True") =>
        Snapshot(blocked_ips, blocked_by_attack_type) =
            Snapshot(pre_block.ips, pre_block.types)

(* an address was added to a non-empty blocklist that did not hold it, and then
   unblocked *)
C7_Witness ==
    /\ pre_block.stage = "add_unblock"
    /\ ~DictHas(pre_block.ips, pre_block.ip)
    /\ pre_block.ips # <<>>
    /\ ret = "True"

(* an entry of the blocklist `b` whose expiry time is at or before current_time *)
IsExpired(b, ip, current_time) == DictHas(b, ip) /\ DictGet(b, ip) <= current_time

(* the number of Unblock effector calls for ip in the call trace cs *)
UnblockCalls(cs, ip) ==
    Cardinality({i \in DOMAIN cs : cs[i][1] = "unblock" /\ cs[i][2] = ip})

(* C8 as stated: a sweep of the running sweeper removes every entry whose expiry
   time is at or before the current time, issuing exactly one Unblock effector call
   for it, and get_blocked_ips lists it no longer *)
C8_SweepRemovesEveryExpired ==
    [][\A okset \in SUBSET Ips :
          CleanupExpiredBlocks(okset) =>
              \A ip \in Ips :
                  IsExpired(blocked_ips, ip, now) =>
                      /\ UnblockCalls(calls', ip) = 1
                      /\ ~DictHas(blocked_ips', ip)
                      /\ \A i \in DOMAIN Snapshot(blocked_ips', blocked_by_attack_type') :
                            Snapshot(blocked_ips', blocked_by_attack_type')[i].ip # ip]_vars

(* C8: a sweep of the running sweeper issues exactly one Unblock effector call for
   every entry whose expiry time is at or before the current time and none for any
   other address; it removes exactly the entries whose call succeeded, which
   get_blocked_ips then lists no longer, and leaves every other entry as it was *)
C8_SweepUnblocksExpiredOnce ==
    [][\A okset \in SUBSET Ips :
          CleanupExpiredBlocks(okset) =>
              /\ Len(calls') = Cardinality({ip \in Ips : IsExpired(blocked_ips, ip, now)})
              /\ \A ip \in Ips :
                    /\ UnblockCalls(calls', ip) =
                          IF IsExpired(blocked_ips, ip, now) THEN 1 ELSE 0
                    /\ DictHas(blocked_ips', ip) <=>
                          /\ DictHas(blocked_ips, ip)
                          /\ ~(\E i \in DOMAIN calls' : calls'[i] = Call("unblock", ip, TRUE))
                    /\ DictHas(blocked_ips', ip) =>
                          DictGet(blocked_ips', ip) = DictGet(blocked_ips, ip)
                    /\ (\E i \in DOMAIN calls' : calls'[i] = Call("unblock", ip, TRUE)) =>
                          \A i \in DOMAIN Snapshot(blocked_ips', blocked_by_attack_type') :
                              Snapshot(blocked_ips', blocked_by_attack_type')[i].ip # ip]_vars

(* a sweep has just removed an entry that expired at this very clock reading, while
   another entry, not yet expired, stays *)
C8_Witness ==
    /\ ret = "None"
    /\ \E ip \in Ips :
          /\ calls = <<Call("unblock", ip, TRUE)>>
          /\ ~DictHas(blocked_ips, ip)
    /\ blocked_ips # <<>>

(* C9: an entry that an Add of duration 0 created, the 0 being the duration argument
   or, without an argument, the configured block_duration, is removed by the next
   sweep, unless the Unblock effector call of that sweep fails for it *)
C9_ZeroDurationSweptNext ==
    [][\A okset \in SUBSET Ips :
          CleanupExpiredBlocks(okset) =>
              \A ip \in zero_added :
                  \/ ~DictHas(blocked_ips', ip)
                  \/ \E i \in DOMAIN calls' : calls'[i] = Call("unblock", ip, FALSE)]_vars

(* C10 as stated, its last part: every entry whose Unblock effector call failed, in
   unblock_ip or in a sweep, and that is still in the blocklist gets an Unblock
   effector call in the next sweep *)
C10_FailedUnblockRetriedNextSweep ==
    [][\A okset \in SUBSET Ips :
          CleanupExpiredBlocks(okset) =>
              \A ip \in unblock_failed \cap DictKeys(blocked_ips) :
                  UnblockCalls(calls', ip) = 1]_vars

(* C10: when the Block effector call fails during an Add, no entry is recorded and
   the Add returns false; when the Unblock effector call fails during unblock_ip or
   during a sweep, the entry stays in the blocklist with its expiry unchanged; and
   the next sweep retries the Unblock of such an entry exactly when the entry has
   expired by then *)
C10_EffectorFailureKeepsState ==
    [][/\ \A ip \in Ips, d \in DurationArgs :
             (ManualBlock(ip, d, FALSE) /\ calls' = <<Call("block", ip, FALSE)>>) =>
                 /\ blocked_ips' = blocked_ips
                 /\ blocked_by_attack_type' = blocked_by_attack_type
                 /\ rules' = rules
                 /\ ~DictHas(blocked_ips', ip)
                 /\ ret' = "False"
       /\ \A ip \in Ips :
             (UnblockIp(ip, FALSE) /\ DictHas(blocked_ips, ip)) =>
                 /\ calls' = <<Call("unblock", ip, FALSE)>>
                 /\ blocked_ips' = blocked_ips
                 /\ blocked_by_attack_type' = blocked_by_attack_type
                 /\ rules' = rules
                 /\ ret' = "False"
       /\ \A okset \in SUBSET Ips :
             CleanupExpiredBlocks(okset) =>
                 /\ \A ip \in FailedUnblocks(calls') :
                       /\ DictHas(blocked_ips', ip)
                       /\ DictGet(blocked_ips', ip) = DictGet(blocked_ips, ip)
                       /\ AttackTypeOf(blocked_by_attack_type', ip) =
                             AttackTypeOf(blocked_by_attack_type, ip)
                       /\ rules'[ip] = rules[ip]
                 /\ \A ip \in unblock_failed \cap DictKeys(blocked_ips) :
                       UnblockCalls(calls', ip) =
                           IF IsExpired(blocked_ips, ip, now) THEN 1 ELSE 0]_vars

(* a sweep has just retried, and failed again, the Unblock of an entry whose
   Unblock had failed before *)
C10_Witness ==
    /\ ret = "None"
    /\ \E ip \in Ips :
          /\ calls = <<Call("unblock", ip, FALSE)>>
          /\ ip \in unblock_failed
          /\ DictHas(blocked_ips, ip)
          /\ rules[ip] > 0

(* C11: once the prevention engine has been stopped, block_ip and manual_block are
   no-ops: the call that follows stop() creates no blocklist entry, issues no
   firewall call and reports failure. *)
C11_StoppedEngineRefusesAdds ==
    [][(/\ op.name = "stop"
        /\ ~running
        /\ \E ip \in Ips, d \in DurationArgs, ok \in BOOLEAN :
              BlockIp(ip, ok) \/ ManualBlock(ip, d, ok))
       => /\ blocked_ips' = blocked_ips
          /\ rules' = rules
          /\ calls' = <<>>
          /\ ret' = "False"]_vars

(* C12: when the queue between the capture worker and the detector already holds
   its capacity (buffer_size flows), a further flow the capture worker emits is
   dropped and the queue is left unchanged, so the queue never holds more than its
   capacity. *)
C12_FullQueueDropsFlow ==
    [][(/\ Len(packet_queue) >= buffer_size
        /\ (\E pkt \in Packets : ProcessPacket(pkt)) \/ CleanupOldFlows)
       => /\ packet_queue' = packet_queue
          /\ Len(packet_queue') <= buffer_size]_vars

(* C13: with the key (attack_type, src_addr), an attack is dispatched only if no
   notification of the same key was dispatched within the preceding cooldown_period;
   a second attack of the same key inside the cooldown is suppressed and never
   dispatched later.  So no mail carries two attacks of one key that were detected
   less than cooldown_period apart. *)
C13_SecondAttackInCooldownSuppressed ==
    \A i, j \in DOMAIN last_mail :
        (/\ i < j
         /\ last_mail[i].attack_type = last_mail[j].attack_type
         /\ last_mail[i].src_ip = last_mail[j].src_ip)
        => last_mail[j].timestamp - last_mail[i].timestamp >= cooldown_period

(* the verdict when every model that raises counts as (False, 0, "Unknown") and the
   results are fused all the same *)
FusedWithUnknown(sc) ==
    LET results == [i \in DOMAIN sc.models |->
                       IF sc.models[i].raises THEN Result(FALSE, 0, "Unknown")
                       ELSE ClassifyWithModel(sc.models[i])[1]]
        model_types == [i \in DOMAIN sc.models |-> sc.models[i].model_type]
    IN  FalsePositiveGuard(sc.flow,
                           CombineResults(results, model_types, sc.combination_method))

(* C14: when scoring with one model of the ensemble raises, that model counts as
   (is_attack = false, confidence = 0, type "Unknown") and the verdict of the flow
   is the fusion of it with the results of the other models: the flow is an attack
   exactly when that fusion says so. *)
C14_RaisingModelCountsAsUnknown ==
    (/\ verdict # NoVerdict
     /\ Cardinality({i \in DOMAIN scoring.models : scoring.models[i].raises}) = 1)
    => verdict.is_attack = FusedWithUnknown(scoring).is_attack

(* the blocking condition of C15, as the claim words it *)
BlockCondition(attack_type, confidence) ==
    /\ auto_block
    /\ auto_block_attack_types = {} \/ attack_type \in auto_block_attack_types
    /\ confidence >= detection_threshold + 1

(* C15: for a detected attack the handler calls the Add of the blocklist (block_ip)
   if and only if auto_block is enabled, the list of attack types is empty or holds
   the attack type, and the confidence is at least the blocking threshold
   (detection_threshold + 0.1); an entry for the source results only if in
   addition the source is not whitelisted. *)
C15_AddIffBlockCondition ==
    [][\A ip \in Ips, ty \in DecisionAttackTypes, c \in DecisionConfidences,
          ok \in BOOLEAN :
          HandleDetectedAttack(ip, ty, c, ok)
          => /\ (ret' # "None") <=> BlockCondition(ty, c)
             /\ (~DictHas(blocked_ips, ip) /\ DictHas(blocked_ips', ip))
                => (BlockCondition(ty, c) /\ ~IsIpWhitelisted(ip, whitelist))
             /\ calls' # <<>> => BlockCondition(ty, c)]_vars

(* an attack at exactly the blocking threshold, of a type on a non-empty list, has
   been blocked *)
C15_Witness ==
    /\ op.name = "attack"
    /\ op.confidence = detection_threshold + 1
    /\ auto_block_attack_types # {}
    /\ ret = "True"
    /\ DictHas(blocked_ips, op.ip)

(* an explicit attack signature: SYN-flag rate above 0.8 and ACK-flag rate below 0.2 *)
AttackSignature(flow) ==
    /\ 10 * flow.syn > 8 * flow.packets
    /\ 10 * flow.ack < 2 * flow.packets

(* C16: a flow with an explicit attack signature is never declared legitimate on the
   basis of its ports: when the models call it an attack, the false positive guard
   does not turn the verdict into "no attack" for a flow whose only ground for it
   is a streaming port. *)
C16_SignatureOverridesPorts ==
    (/\ verdict # NoVerdict
     /\ ClassifyFlow(scoring).result.is_attack
     /\ AttackSignature(scoring.flow)
     /\ ~(scoring.flow.packets > 100 /\ scoring.flow.iat_len > 10 /\ scoring.flow.cv < 5))
    => verdict.is_attack

(* a row of the attack log without its blocked flag, the one column a rewrite may
   change *)
RowWritten(row) == [row EXCEPT !.blocked = FALSE]

(* C17: every attack forwarded to the attack handler adds exactly one row to the
   attack log, and a row once written is never lost or removed, whatever the
   interleaving of the detector's appends with the rewrites of the blocked status
   by the detector and the sweeper. *)
C17_AttackLogRowsNeverLost ==
    [][/\ Len(attack_log') >= Len(attack_log)
       /\ \A i \in DOMAIN attack_log :
             RowWritten(attack_log'[i]) = RowWritten(attack_log[i])
       /\ (\E ip \in Ips, ty \in AttackTypes, c \in Confidences, ok \in BOOLEAN :
              HandleDetectedAttack(ip, ty, c, ok))
          => Len(attack_log') = Len(attack_log) + 1]_vars

(* C18: when the attack handler blocks the source of a detected attack (block_ip
   returns True), the row of that attack in the attack log carries the source
   address of the flow and has blocked = true. *)
C18_BlockedAttackRowHasSourceAndFlag ==
    [][\A ip \in Ips, ty \in AttackTypes, c \in Confidences, ok \in BOOLEAN :
          (HandleDetectedAttack(ip, ty, c, ok) /\ ret' = "True")
          => /\ attack_log' # <<>>
             /\ attack_log'[Len(attack_log')].src_ip = ip
             /\ attack_log'[Len(attack_log')].blocked]_vars

(* C19: stop_all stops the capture before the detector, the detector before the
   sweeper of the blocklist, and once it is through no DROP rule of the system is
   left in the chain *)
ShutdownStarted == shutdown # "idle"

C19_ShutdownOrderAndChainRemoved ==
    ShutdownStarted =>
        /\ ~detection_running => ~capture_running
        /\ ~running => ~detection_running
        /\ shutdown = "done" => \A ip \in Ips : rules[ip] = 0

(* C20: under the weighted policy with two or more models the fused verdict is an
   attack exactly when the sum of weight * (confidence of an attack vote, minus
   confidence of a normal vote) is positive, its confidence is that sum's absolute
   value capped at 1, and its type is "Normal" when it is no attack, else the type
   of the first CIC-DDoS model that voted attack, else the type of the attacking
   model of highest confidence, else "Generic DDoS" *)
WeightedFused ==
    /\ scoring # NoScoring
    /\ verdict # NoVerdict
    /\ scoring.combination_method = "weighted"
    /\ Len(scoring.models) >= 2

Votes == [i \in DOMAIN scoring.models |-> ClassifyWithModel(scoring.models[i])[1]]

RECURSIVE SignedSum(_)
SignedSum(n) ==
    IF n = 0 THEN 0
    ELSE SignedSum(n - 1)
         + (IF Votes[n].is_attack THEN WeightsFor(Len(Votes))[n] * Votes[n].confidence
            ELSE 0 - WeightsFor(Len(Votes))[n] * Votes[n].confidence)

Attackers == {i \in DOMAIN Votes : Votes[i].is_attack}

CicAttackers == {i \in Attackers : scoring.models[i].model_type = "cicddos"}

C20_WeightedFusion ==
    WeightedFused =>
        LET sum == SignedSum(Len(Votes))
        IN  /\ verdict.is_attack = (sum > 0)
            /\ verdict.confidence = (IF Abs(sum) > 100 THEN 100 ELSE Abs(sum))
            /\ ~verdict.is_attack => verdict.attack_type = "Normal"
            /\ verdict.is_attack /\ CicAttackers # {} =>
                  \E i \in CicAttackers :
                     /\ \A j \in CicAttackers : i <= j
                     /\ verdict.attack_type = Votes[i].attack_type
            /\ verdict.is_attack /\ CicAttackers = {} /\ Attackers # {} =>
                  \E i \in Attackers :
                     /\ \A j \in Attackers : Votes[j].confidence <= Votes[i].confidence
                     /\ verdict.attack_type = Votes[i].attack_type
            /\ verdict.is_attack /\ Attackers = {} =>
                  verdict.attack_type = "Generic DDoS"

(* three models at 0.9 vote attack, a rule-based one first: the sum is capped and
   the type is the one of the first CIC-DDoS model *)
C20_Witness ==
    /\ WeightedFused
    /\ Len(scoring.models) = 3
    /\ scoring.models[1].model_type = "suricata"
    /\ scoring.models[2].label = "UDP"
    /\ scoring.models[3].label = "Syn"
    /\ SignedSum(3) > 100
    /\ verdict = Result(TRUE, 100, "UDP Flood")

(* C21: under the voting policy with two or more models the fused verdict is an
   attack exactly when the weights of the models that voted attack sum to more than
   0.5, its confidence is the sum of weight * confidence over the models, and its
   type is the type with the largest total weight, the earliest one on a tie *)
VotingFused ==
    /\ scoring # NoScoring
    /\ verdict # NoVerdict
    /\ scoring.combination_method = "voting"
    /\ Len(scoring.models) >= 2

RECURSIVE WeightOver(_, _)
WeightOver(idx, n) ==
    IF n = 0 THEN 0
    ELSE WeightOver(idx, n - 1) + (IF n \in idx THEN WeightsFor(Len(Votes))[n] ELSE 0)

RECURSIVE WeightedConfidenceSum(_)
WeightedConfidenceSum(n) ==
    IF n = 0 THEN 0
    ELSE WeightedConfidenceSum(n - 1) + WeightsFor(Len(Votes))[n] * Votes[n].confidence

TypeWeight(i) ==
    WeightOver({j \in DOMAIN Votes : Votes[j].attack_type = Votes[i].attack_type},
               Len(Votes))

C21_VotingFusion ==
    VotingFused =>
        /\ verdict.is_attack = (WeightOver(Attackers, Len(Votes)) > 5)
        /\ verdict.confidence = WeightedConfidenceSum(Len(Votes))
        /\ \E i \in DOMAIN Votes :
              /\ verdict.attack_type = Votes[i].attack_type
              /\ \A j \in DOMAIN Votes : TypeWeight(j) <= TypeWeight(i)
              /\ \A j \in DOMAIN Votes : j < i => TypeWeight(j) < TypeWeight(i)

(* C22: whatever the sequence of starts and stops of the prevention engine, the
   restart of update_config included, at most one thread runs the auto-unblock
   loop *)
C22_AtMostOneSweeper == unblock_threads <= 1

(* C23: whatever the sequence of start_capture and stop_capture, at most one capture
   worker and at most one expiry sweeper are live *)
C23_AtMostOneCaptureWorker == capture_threads <= 1 /\ cleanup_threads <= 1

(* C24: a flow that a step appends to the scoring queue, by the size trigger or by
   the idle trigger, is not in the flow table after that step *)
C24_EmittedFlowLeavesTable ==
    [][\A i \in (Len(packet_queue) + 1)..Len(packet_queue') :
          Len(packet_queue') > Len(packet_queue)
          => ~DictHas(flow_table', packet_queue'[i].flow_key)]_vars

(* C25: after every packet the flow table holds at most buffer_size flows, and when
   the packet's flow would make it larger, the flow that leaves the table is one
   whose last packet is the oldest of all *)
TableKeys == DictKeys(flow_table)

LastSeen(key) == DictGet(flow_expiry, key)

C25_TableWithinBufferSize ==
    [][\A pkt \in Packets :
          ProcessPacket(pkt) =>
             /\ Len(flow_table') <= buffer_size
             /\ (FlowKey(pkt) \notin TableKeys /\ Len(flow_table) = buffer_size) =>
                   \E old \in TableKeys :
                      /\ \A other \in TableKeys : LastSeen(old) <= LastSeen(other)
                      /\ DictKeys(flow_table') =
                            (TableKeys \cup {FlowKey(pkt)}) \ {old}
             /\ (FlowKey(pkt) \in TableKeys \/ Len(flow_table) < buffer_size) =>
                   DictKeys(flow_table') = TableKeys \cup {FlowKey(pkt)}]_vars

(* before the clock has moved no flow is idle, so a flow that was queued and is
   missing from a full table was pushed out of it by the packet of another flow *)
C25_Witness ==
    /\ now = 0
    /\ Len(flow_table) = buffer_size
    /\ \E key \in FlowKeys : flow_enqueues[key] > 0 /\ ~DictHas(flow_table, key)

(* C26: a packet that pushes a flow out of the full table puts on the queue nothing
   but, at most, its own flow: the queue keeps what it held and the flow pushed
   out is not appended, analysed or not *)
C26_EvictionLeavesQueue ==
    [][\A pkt \in Packets :
          (ProcessPacket(pkt) /\ DictKeys(flow_table) \ DictKeys(flow_table') # {}) =>
             /\ Len(packet_queue') >= Len(packet_queue)
             /\ SubSeq(packet_queue', 1, Len(packet_queue)) = packet_queue
             /\ \A i \in (Len(packet_queue) + 1)..Len(packet_queue') :
                   /\ packet_queue'[i].flow_key = FlowKey(pkt)
                   /\ packet_queue'[i].flow_key \notin
                         DictKeys(flow_table) \ DictKeys(flow_table')]_vars

(* a flow that was never analysed has been pushed out and is not on the queue *)
C26_Witness ==
    /\ evicted_flows # <<>>
    /\ \A i \in DOMAIN evicted_flows :
          /\ ~evicted_flows[i].analyzed
          /\ \A j \in DOMAIN packet_queue :
                packet_queue[j].flow_key # evicted_flows[i].flow_key

(* C27: while the capture runs, a flow whose last packet is older than the idle
   timeout does not stay in the flow table (it is swept, unless a packet refreshes
   it or the table's limit pushes it out first), and a sweep puts a flow it removes
   on the queue exactly when the flow was not analysed *)
Idle(key) == DictHas(flow_expiry, key) /\ now - DictGet(flow_expiry, key) > timeout

Swept == {key \in FlowKeys : Idle(key) /\ DictHas(flow_table, key)}

C27_IdleFlowsSwept ==
    /\ \A key \in FlowKeys :
          (capture_running /\ Idle(key)) ~> (~capture_running \/ ~Idle(key))
    /\ [][CleanupOldFlows =>
             /\ \A key \in Swept : ~DictHas(flow_table', key)
             /\ DictKeys(flow_table') = DictKeys(flow_table) \ Swept
             /\ Len(packet_queue') =
                   Len(packet_queue)
                   + Cardinality({key \in Swept : ~DictGet(flow_table, key).analyzed})
             /\ SubSeq(packet_queue', 1, Len(packet_queue)) = packet_queue
             /\ \A i \in (Len(packet_queue) + 1)..Len(packet_queue') :
                   /\ packet_queue'[i].flow_key \in Swept
                   /\ ~packet_queue'[i].analyzed]_vars

(* the queue holds a flow below the size trigger, which only a sweep can have put
   there, and the flow has left the table *)
C27_Witness ==
    \E i \in DOMAIN packet_queue :
        /\ packet_queue[i].packets < max_packets_per_flow
        /\ ~DictHas(flow_table, packet_queue[i].flow_key)
        /\ ~DictHas(flow_expiry, packet_queue[i].flow_key)

(* C28: a TCP or UDP packet and the packet of the opposite direction have the same
   flow key, and a packet counts as forward exactly when its source endpoint is the
   smaller of its two endpoints, which includes a packet whose endpoints are equal *)
SourceIsMin(pkt) ==
    \/ pkt.src_ip < pkt.dst_ip
    \/ pkt.src_ip = pkt.dst_ip /\ pkt.src_port <= pkt.dst_port

Reversed(pkt) ==
    [pkt EXCEPT !.src_ip = pkt.dst_ip, !.src_port = pkt.dst_port,
                !.dst_ip = pkt.src_ip, !.dst_port = pkt.src_port]

ForwardBefore(key) == IF DictHas(flow_table, key) THEN DictGet(flow_table, key).fwd_packets ELSE 0

C28_DirectionByMinEndpoint ==
    [][\A pkt \in KeyPackets :
          ProcessPacket(pkt) =>
             /\ FlowKey(Reversed(pkt)) = FlowKey(pkt)
             /\ DictHas(flow_table', FlowKey(pkt))
             /\ DictGet(flow_table', FlowKey(pkt)).fwd_packets =
                   ForwardBefore(FlowKey(pkt)) + (IF SourceIsMin(pkt) THEN 1 ELSE 0)]_vars

(* C29: between two handlers of the capture the flow table and the expiry index
   have the same keys, each of them once *)
C29_TableAndExpirySameKeys ==
    /\ DictKeys(flow_table) = DictKeys(flow_expiry)
    /\ Cardinality(DictKeys(flow_table)) = Len(flow_table)
    /\ Cardinality(DictKeys(flow_expiry)) = Len(flow_expiry)

(* a packet has just pushed a flow out of the table, and the flow has left the
   expiry index with it while the packet's flow is in both *)
C29_Witness ==
    /\ evicted_flows # <<>>
    /\ \A i \in DOMAIN evicted_flows : ~DictHas(flow_expiry, evicted_flows[i].flow_key)
    /\ flow_table # <<>>
    /\ \A i \in DOMAIN flow_table : DictHas(flow_expiry, flow_table[i][1])

(* C30: an iteration of the detection loop takes at most batch_size flows off the
   queue, whatever the queue holds, and the batch it hands on has no flow of fewer
   than min_packets_for_analysis packets and no flow key twice *)
C30_BatchBoundedFilteredDistinct ==
    [][DetectionLoop =>
          /\ Len(packet_queue) - Len(packet_queue') <= batch_size
          /\ Len(packet_queue') = IF Len(packet_queue) > batch_size
                                  THEN Len(packet_queue) - batch_size ELSE 0
          /\ Len(flows') <= batch_size
          /\ \A i \in DOMAIN flows' : flows'[i].packets >= min_packets_for_analysis
          /\ \A i, j \in DOMAIN flows' : flows'[i].flow_key = flows'[j].flow_key => i = j
          /\ \A i \in 1..Min(batch_size, Len(packet_queue)) :
                packet_queue[i].packets >= min_packets_for_analysis
                => \E j \in DOMAIN flows' : flows'[j].flow_key = packet_queue[i].flow_key]_vars

(* the loop took batch_size flows, one of them a packet short, handed the other one
   on and left a flow on the queue *)
C30_Witness ==
    /\ Len(taken_flows) = batch_size
    /\ \E i \in DOMAIN taken_flows :
          taken_flows[i].packets = min_packets_for_analysis - 1
    /\ Len(flows) = batch_size - 1
    /\ packet_queue # <<>>

(* C31: when the models call a flow an attack with a confidence from
   detection_threshold up to but not including false_positive_threshold and the
   flow looks legitimate (a legitimate service, or long and steady), analyze_flow
   returns "no attack" and false_positives grows by exactly one; when the
   confidence is false_positive_threshold or more the verdict of the models is
   returned as it is and the counter stays. *)
C31_BorderlineDowngradedAndCounted ==
    [][AnalyzeFlow =>
         LET r == ClassifyFlow(scoring).result
             legitimate ==
                 \/ /\ scoring.flow.src_port \in streaming_ports
                       \/ scoring.flow.dst_port \in streaming_ports
                    /\ scoring.flow.protocol \in {6, 17}
                 \/ /\ scoring.flow.packets > 100
                    /\ scoring.flow.iat_len > 10
                    /\ scoring.flow.cv < 5
         IN  /\ (/\ r.is_attack
                 /\ r.confidence >= 70
                 /\ r.confidence < 80
                 /\ legitimate)
                => /\ ~verdict'.is_attack
                   /\ stats'.false_positives = stats.false_positives + 1
             /\ (r.is_attack /\ r.confidence >= 80)
                => /\ verdict' = r
                   /\ stats' = stats]_vars

(* a SYN flood reported with confidence 0.7 on a flow to port 80 was downgraded
   and counted once *)
C31_Witness ==
    /\ StatsTracked
    /\ scoring.flow.dst_port = 80
    /\ verdict = Result(FALSE, 70, "SYN Flood")
    /\ stats.false_positives = 1

(* the flows of the batch in hand that are counted or still to be counted *)
FlowsAccounted ==
    stats.attack_flows_detected + stats.benign_flows_analyzed + Len(futures) + Len(flows)

(* C32: _process_flows hands the flow of a result to _handle_detected_attack
   (which counts it in attack_flows_detected) exactly when the verdict is attack
   with confidence >= detection_threshold and counts it in benign_flows_analyzed
   otherwise; no other step of the batch changes the two counters, every submitted
   flow gets a future, so each flow of the batch is counted exactly once. *)
C32_ScoredFlowCountedOnce ==
    [][/\ \A ok \in BOOLEAN :
             TakeResult(ok) =>
                LET v == Head(futures).result
                    attack == v.is_attack /\ v.confidence >= 70
                IN  /\ stats'.attack_flows_detected =
                          stats.attack_flows_detected + (IF attack THEN 1 ELSE 0)
                    /\ stats'.benign_flows_analyzed =
                          stats.benign_flows_analyzed + (IF attack THEN 0 ELSE 1)
       /\ FlowsAccounted' = FlowsAccounted]_vars

(* a batch of two flows is through: one was handled as an attack, the other, an
   attack reported below the threshold, was counted as benign *)
C32_Witness ==
    /\ StatsTracked
    /\ flows = <<>>
    /\ futures = <<>>
    /\ stats.attack_flows_detected = 1
    /\ stats.benign_flows_analyzed = 1
    /\ stats.false_positives = 0

(* C37: every false positive a worker of the pool counts raises false_positives by
   one, whatever the other workers do between its read and its write of the
   counter, so that after the batch the counter has grown by the number of
   downgraded flows. *)
C37_NoLostFalsePositive ==
    [][\A i \in 1..batch_size :
          WorkerCount(i) => stats'.false_positives = stats.false_positives + 1]_vars

(* C36: every batch the running detector took off the queue is handed to analysis,
   also after the detector was stopped and started again: _process_flows gets a
   future for each of its flows, so that each is analysed and counted. *)
C36_DequeuedFlowsReachAnalysis ==
    [][ProcessFlows /\ detection_running => Len(futures') = Len(flows)]_vars

(* C38: a verdict of attack never carries the attack type "Normal", whatever the
   models answered and however their results were combined. *)
C38_AttackNeverNormal ==
    verdict.is_attack => verdict.attack_type # "Normal"

(* C39: an attack that notify accepted leaves the pending list of the running
   service only in a mail that went out, which holds it once; an attack is not
   dropped when the email sender fails. *)
C39_AcceptedAttackMailedOnce ==
    [][\A ok \in BOOLEAN :
          NotificationLoopSending(ok) /\ pending_notifications' # pending_notifications
             => last_mail' = pending_notifications]_vars

(* the features a worker of the pool extracted from the flows it analysed *)
Analysed == {i \in DOMAIN futures : futures[i].pc = "done"}

(* C33: the Init Fwd Win Bytes feature of a TCP flow that saw a forward packet is
   the window of its first forward packet, whether the flow began with a forward or
   with a backward packet. *)
C33_InitFwdWinIsFirstForwardWindow ==
    \A i \in Analysed :
       (futures[i].flow.flow_key[5] = "TCP" /\ futures[i].flow.fwd_packets > 0)
          => futures[i].features.InitFwdWinBytes = FwdWindow

(* C34: the Protocol feature extracted for the CIC-DDoS model is 6 for a TCP flow,
   17 for a UDP flow and 1 for an ICMP and for an ICMPv6 flow. *)
C34_ProtocolFeatureByProtocol ==
    \A i \in Analysed :
       futures[i].features.Protocol =
          (CASE futures[i].flow.flow_key[5] = "TCP" -> 6
             [] futures[i].flow.flow_key[5] = "UDP" -> 17
             [] futures[i].flow.flow_key[5] \in {"ICMP", "ICMPv6"} -> 1)

(* C35: a record that is on the queue reads the same after every later step of the
   capture: packets that arrive on the live flow it was copied from do not change
   it. *)
C35_EnqueuedRecordFrozen ==
    [][\A i \in DOMAIN packet_queue :
          i \in DOMAIN packet_queue' => packet_queue'[i] = packet_queue[i]]_vars

(* the threads that thread t is waiting for: the holder of the lock it is blocked
   at, the thread it joins when that join cannot return yet, the pool worker whose
   result it awaits *)
WaitsFor(t) ==
    LET at == thread_pc[t]
    IN  CASE at.pc = "wait" -> {lock[at.on]} \ {NoThread}
          [] at.pc = "join" ->
               IF Join(JoinedThreads(at.on)[call.joining]) THEN {}
               ELSE {JoinedThreads(at.on)[call.joining]}
          [] at.pc = "result" -> {u \in {"pool_worker"} : IsAlive(u)}
          [] OTHER -> {}

(* every thread of S waits, and only for threads of S *)
WaitForever(S) == S # {} /\ \A t \in S : WaitsFor(t) # {} /\ WaitsFor(t) \subseteq S

InCall == thread_pc["control"].pc # "idle"

(* C40: no interleaving of the loops, the pool worker, the stats thread and the
   calls of the control surface reaches a set of threads that wait for each other
   forever, and every start, stop and other call that has begun returns, although
   a stop joins its loop while it holds the lock the loop takes. *)
C40_NoThreadsWaitForever ==
    /\ [](~\E S \in SUBSET Threads : WaitForever(S))
    /\ (InCall ~> ~InCall)

(* a stop is inside the join of a loop, holding the lock that the loop is
   blocked at *)
C40_Witness ==
    /\ thread_pc["control"].pc = "join"
    /\ lock[call.on] = "control"
    /\ thread_pc[JoinedThreads(call.on)[call.joining]] = At("wait", call.on)

====
